---- MODULE Spec2Model ----
(***************************************************************************)
(* impreproc: correlation of a DJI .mrk GNSS log with image EXIF records   *)
(* (merge_mrk_exif_data) and projection of the merged records to UTM       *)
(* (project_to_utm), modelled from src/src/impreproc/dji.py,               *)
(* src/src/impreproc/djimrk.py and src/src/impreproc/transformations.py.   *)
(*                                                                         *)
(* A Python dict is a function from its keys to its values; a record       *)
(* (TypedDict / dict of fields) is a function from field names to values;  *)
(* Python's None stored as a dict value is the value Null.  Field values   *)
(* are integers standing for the floats and strings of the program.        *)
(***************************************************************************)
EXTENDS Integers, Sequences, FiniteSets, TLC

VARIABLES
    mrk_dict,     \* merge_mrk_exif_data: the log mapping (argument)
    exif_dict,    \* merge_mrk_exif_data: the image mapping (argument)
    merged_dict,  \* merge_mrk_exif_data: the local merged_dict
    merge_todo,   \* keys of mrk_dict the for loop has not visited yet
    merge_pc,     \* "idle" | "loop" | "returned" | "raised"
    merge_exc,    \* the exception that ended the call, "none" otherwise
    data_dict,    \* the caller's mapping handed to project_to_utm
    copy_dict,    \* the caller's deep copy of it, taken before any call
    input0,       \* the mapping as it was before any call
    calls,        \* the project_to_utm calls made so far, the last one running
    mrk_path,     \* mrkread: the path argument (does it exist, its suffix)
    mrk_file,     \* mrkread: the lines of the file, each a sequence of characters
    mrk_tokens,   \* the fields each line of the file was written from
    mrk_pc,       \* "idle" | "lines" | "returned" | "raised"
    mrk_opened,   \* mrkread has opened the file
    mrk_i,        \* number of lines the loop of mrkread has parsed
    outdata,      \* mrkread: the local outdata
    mrk_exc,      \* the exception that ended mrkread, "none" otherwise
    im,           \* bilinear_interpolate: the raster, im[row][col], 0-based
    qx,           \* bilinear_interpolate: the query x (column), in 1/Scale
    qy,           \* bilinear_interpolate: the query y (row), in 1/Scale
    bl,           \* bilinear_interpolate: position, locals and result
    reads,        \* the (row, col) index pairs handed to im[...]
    affine,       \* xy2rc / rc2xy: the transform, the point, the values returned
    name_call,    \* get_dji_id_from_name: the file name, the value returned
    exif_call,    \* latlonalt_from_exif: the tags, the value returned
    images_call,  \* get_images: the files, the loop, the mapping built
    image_list,   \* ImageList: the files, the cursor, the loops over the list
    renamer,      \* ImageRenamer.rename: the files, both folders, the loop
    csv_call      \* dji2csv: the arguments, the loop, the file written

mergeVars == <<mrk_dict, exif_dict, merged_dict, merge_todo, merge_pc, merge_exc>>
projVars  == <<data_dict, copy_dict, input0, calls>>
mrkVars   == <<mrk_path, mrk_file, mrk_tokens, mrk_pc, mrk_opened, mrk_i, outdata,
               mrk_exc>>
bilVars   == <<im, qx, qy, bl, reads>>
vars      == <<mrk_dict, exif_dict, merged_dict, merge_todo, merge_pc, merge_exc,
               data_dict, copy_dict, input0, calls,
               mrk_path, mrk_file, mrk_tokens, mrk_pc, mrk_opened, mrk_i, outdata,
               mrk_exc, im, qx, qy, bl, reads,
               affine, name_call, exif_call, images_call, image_list, renamer,
               csv_call>>
coreVars  == <<mergeVars, projVars, mrkVars, bilVars>>
utilVars  == <<affine, name_call, exif_call, images_call, image_list, renamer,
               csv_call>>

(***************************************************************************)
(* Bounds of the model.                                                    *)
(***************************************************************************)
MaxId == 2      \* point ids are 1..MaxId
MaxSeed == 1    \* field values vary with a seed in 0..MaxSeed

IDs   == 1..MaxId
Seeds == 0..MaxSeed

(***************************************************************************)
(* Values and records.                                                     *)
(***************************************************************************)
\* None as a dict value: a value that is no record of the program.
Null == [None |-> 0]

\* dict[key] = value / row[field] = value
Put(d, k, v) == [x \in (DOMAIN d) \cup {k} |-> IF x = k THEN v ELSE d[x]]

EmptyDict == [x \in {} |-> 0]

\* The values of one parsed log line (MrkData): every field its own value.
MrkRecord(id, s) ==
    [id |-> id, clock_time |-> 1000 + 10 * id + s, lat |-> 44 + id + s,
     lon |-> 8 + id + s, ellh |-> 100 + 10 * id + s,
     stdE |-> 20 + id + s, stdN |-> 30 + id + s, stdV |-> 40 + id + s,
     dE |-> 50 + id + s, dN |-> 60 + id + s, dV |-> 70 + id + s,
     Qual |-> 50, Flag |-> 80 + id + s]

\* The values of one image's metadata (ExifData), an independent measurement.
ExifRecord(id, s) ==
    [id |-> id, name |-> 200 + id, path |-> 300 + id, date |-> 400 + s,
     time |-> 500 + id + s, lat |-> 45 + id + s, lon |-> 9 + id + s,
     ellh |-> 110 + 10 * id + s]

\* All mappings from a subset of the ids to the values Vals[id].
DictsOver(Vals) ==
    UNION { { d \in [S -> UNION { Vals[i] : i \in S }] : \A i \in S : d[i] \in Vals[i] }
            : S \in SUBSET IDs }

MrkDicts  == DictsOver([i \in IDs |-> { MrkRecord(i, s) : s \in Seeds }])
\* get_images stores None for an image whose metadata cannot be read.
ExifDicts == DictsOver([i \in IDs |-> { ExifRecord(i, s) : s \in Seeds } \cup {Null}])

(***************************************************************************)
(* merge_mrk_exif_data (dji.py 168-213)                                    *)
(***************************************************************************)
MergedData_ImageOverLog(m, e) ==
    [id |-> m["id"], clock_time_mrk |-> m["clock_time"], lat_mrk |-> e["lat"],
     lon_mrk |-> e["lon"], ellh_mrk |-> e["ellh"], stdE_mrk |-> m["stdE"],
     stdN_mrk |-> m["stdN"], stdV_mrk |-> m["stdV"], dE_mrk |-> m["dE"],
     dN_mrk |-> m["dN"], dV_mrk |-> m["dV"], Qual_mrk |-> m["Qual"],
     Flag_mrk |-> m["Flag"], name_exif |-> e["name"], path_exif |-> e["path"],
     date_exif |-> e["date"], time_exif |-> e["time"], lat_exif |-> e["lat"],
     lon_exif |-> e["lon"], ellh_exif |-> e["ellh"]]

\* The dict literal of lines 186-207.
MergedData(m, e) ==
    [id |-> m["id"], clock_time_mrk |-> m["clock_time"], lat_mrk |-> m["lat"],
     lon_mrk |-> m["lon"], ellh_mrk |-> m["ellh"], stdE_mrk |-> m["stdE"],
     stdN_mrk |-> m["stdN"], stdV_mrk |-> m["stdV"], dE_mrk |-> m["dE"],
     dN_mrk |-> m["dN"], dV_mrk |-> m["dV"], Qual_mrk |-> m["Qual"],
     Flag_mrk |-> m["Flag"], name_exif |-> e["name"], path_exif |-> e["path"],
     date_exif |-> e["date"], time_exif |-> e["time"], lat_exif |-> e["lat"],
     lon_exif |-> e["lon"], ellh_exif |-> e["ellh"]]

\* Line 183: merged_dict = {} and the loop over mrk_dict.keys() starts.
MergeCall ==
    /\ merge_pc = "idle"
    /\ merged_dict' = EmptyDict
    /\ merge_todo' = DOMAIN mrk_dict
    /\ merge_pc' = "loop"
    /\ UNCHANGED <<mrk_dict, exif_dict, merge_exc>>

\* Lines 185-208, the key is in exif_dict and its value is a record.
MergeMatched(key) ==
    /\ merge_pc = "loop" /\ key \in merge_todo
    /\ key \in DOMAIN exif_dict
    /\ exif_dict[key] # Null
    /\ merged_dict' = Put(merged_dict, key, MergedData(mrk_dict[key], exif_dict[key]))
    /\ merge_todo' = merge_todo \ {key}
    /\ UNCHANGED <<mrk_dict, exif_dict, merge_pc, merge_exc>>

\* Lines 185-207, the key is in exif_dict and its value is None:
\* exif_dict[key]["name"] subscripts None and raises TypeError.
MergeNullImage(key) ==
    /\ merge_pc = "loop" /\ key \in merge_todo
    /\ key \in DOMAIN exif_dict
    /\ exif_dict[key] = Null
    /\ merge_pc' = "raised"
    /\ merge_exc' = "TypeError"
    /\ UNCHANGED <<mrk_dict, exif_dict, merged_dict, merge_todo>>

\* MergeUnmatched with the else branch dropping the key instead of storing None.
MergeUnmatched_Drop(key) ==
    /\ merge_pc = "loop" /\ key \in merge_todo
    /\ key \notin DOMAIN exif_dict
    /\ merged_dict' = merged_dict
    /\ merge_todo' = merge_todo \ {key}
    /\ UNCHANGED <<mrk_dict, exif_dict, merge_pc, merge_exc>>

\* MergeUnmatched without the membership test: exif_dict[key] raises KeyError.
MergeUnmatched_KeyError(key) ==
    /\ merge_pc = "loop" /\ key \in merge_todo
    /\ key \notin DOMAIN exif_dict
    /\ merge_pc' = "raised"
    /\ merge_exc' = "KeyError"
    /\ UNCHANGED <<mrk_dict, exif_dict, merged_dict, merge_todo>>

\* Lines 209-211, the key is not in exif_dict.
MergeUnmatched(key) ==
    /\ merge_pc = "loop" /\ key \in merge_todo
    /\ key \notin DOMAIN exif_dict
    /\ merged_dict' = Put(merged_dict, key, Null)
    /\ merge_todo' = merge_todo \ {key}
    /\ UNCHANGED <<mrk_dict, exif_dict, merge_pc, merge_exc>>

\* Line 213: return merged_dict.
MergeReturn ==
    /\ merge_pc = "loop" /\ merge_todo = {}
    /\ merge_pc' = "returned"
    /\ UNCHANGED <<mrk_dict, exif_dict, merged_dict, merge_todo, merge_exc>>

ProjIdle ==
    /\ data_dict = EmptyDict /\ copy_dict = EmptyDict
    /\ input0 = EmptyDict /\ calls = <<>>

\* mrkread is not called.
MrkIdle ==
    /\ mrk_path = [exists |-> FALSE, suffix |-> <<>>]
    /\ mrk_file = <<>> /\ mrk_tokens = <<>>
    /\ mrk_pc = "idle" /\ mrk_opened = FALSE /\ mrk_i = 0
    /\ outdata = EmptyDict /\ mrk_exc = "none"

\* The locals of bilinear_interpolate before the call.
NoLocals ==
    [pc |-> "idle", x0 |-> 0, x1 |-> 0, y0 |-> 0, y1 |-> 0,
     Ia |-> 0, Ib |-> 0, Ic |-> 0, Id |-> 0, ret |-> 0, exc |-> "none"]

\* A function of the other modules (transformations.py, images.py,
\* renaming.py, djiimg_preproc.py) or of the rest of dji.py is not called.
NotCalled == [pc |-> "idle"]

AffineIdle == affine = NotCalled
NameIdle == name_call = NotCalled
ExifIdle == exif_call = NotCalled
ImagesIdle == images_call = NotCalled
ImageListIdle == image_list = NotCalled
RenamerIdle == renamer = NotCalled
CsvIdle == csv_call = NotCalled

UtilIdle ==
    /\ AffineIdle /\ NameIdle /\ ExifIdle /\ ImagesIdle
    /\ ImageListIdle /\ RenamerIdle /\ CsvIdle

\* bilinear_interpolate is not called.
BilIdle ==
    /\ im = <<>> /\ qx = 0 /\ qy = 0
    /\ bl = NoLocals /\ reads = {}

InitMerge ==
    /\ mrk_dict \in MrkDicts
    /\ exif_dict \in ExifDicts
    /\ merged_dict = EmptyDict
    /\ merge_todo = {}
    /\ merge_pc = "idle"
    /\ merge_exc = "none"
    /\ ProjIdle /\ MrkIdle /\ BilIdle /\ UtilIdle

NextMerge ==
    \/ MergeCall /\ UNCHANGED <<projVars, mrkVars, bilVars, utilVars>>
    \/ \E key \in IDs : MergeMatched(key) /\ UNCHANGED <<projVars, mrkVars, bilVars, utilVars>>
    \/ \E key \in IDs : MergeNullImage(key) /\ UNCHANGED <<projVars, mrkVars, bilVars, utilVars>>
    \/ \E key \in IDs : MergeUnmatched(key) /\ UNCHANGED <<projVars, mrkVars, bilVars, utilVars>>
    \/ MergeReturn /\ UNCHANGED <<projVars, mrkVars, bilVars, utilVars>>

SpecMerge == InitMerge /\ [][NextMerge]_vars

(***************************************************************************)
(* project_to_utm (dji.py 216-305) and the Transformer it builds           *)
(* (transformations.py 51-118)                                             *)
(***************************************************************************)
\* The EPSG codes a caller passes: WGS84 (geographic), WGS84 geocentric
\* (neither geographic nor projected), UTM 32N (projected), and a code the
\* EPSG registry does not hold.
EPSGCodes == {4326, 4978, 32632, 999999}

\* pyproj.CRS.from_epsg(code): the kind of the CRS, "unknown" when from_epsg
\* raises CRSError.
CRSKind(epsg) ==
    CASE epsg = 4326 -> "geographic"
      [] epsg = 4978 -> "geocentric"
      [] epsg = 32632 -> "projected"
      [] OTHER -> "unknown"

\* TransformerFails without the assertion that the destination is projected.
TransformerFails_NoProjectedCheck(epsg_from, epsg_to) ==
    \/ CRSKind(epsg_from) = "unknown"
    \/ CRSKind(epsg_to) = "unknown"
    \/ CRSKind(epsg_from) # "geographic"

\* Lines 253-266: the try block fails when Transformer.__init__ raises
\* (from_epsg on an unknown code) or one of the two assertions on the CRS
\* kinds fails; every such exception is caught and None is returned.
TransformerFails(epsg_from, epsg_to) ==
    \/ CRSKind(epsg_from) = "unknown"
    \/ CRSKind(epsg_to) = "unknown"
    \/ CRSKind(epsg_from) # "geographic"
    \/ CRSKind(epsg_to) # "projected"

Transform_PerCall(lat, lon, epsg_to) ==
    LET zone == epsg_to - 32600
        lon0 == 6 * zone - 183
    IN  <<500 + 70 * (lon - lon0) - lat + Len(calls), 110 * lat + (lon - lon0)>>

\* Transformer.transform(lat, lon) -> (x, y): a transverse-Mercator-like map
\* on integers, easting from the offset to the zone's central meridian
\* (6 * zone - 183 degrees, false easting 500), northing from the latitude.
Transform(lat, lon, epsg_to) ==
    LET zone == epsg_to - 32600
        lon0 == 6 * zone - 183
    IN  <<500 + 70 * (lon - lon0) - lat, 110 * lat + (lon - lon0)>>

\* An element of fields that is not a str (the test passes 123).
NonStr == "<int 123>"
isinstance_str(i) == i # NonStr

\* The fields arguments a caller passes.
FieldsChoices ==
    { <<"lat", "lon">>, <<"lat", "lon", "ellh">>, <<"lat">>,
      <<"lat", "lon", "ellh", "ellh">>, <<"lat", NonStr>>, <<"lat", "lon", NonStr>> }

Suffixes == {"", "_mrk"}

\* Return values: None, a dict, False; Unset while the call runs or raised.
RetNone == [kind |-> "None"]
RetFalse == [kind |-> "False"]
RetDict(d) == [kind |-> "dict", val |-> d]
Unset == [kind |-> "unset"]

\* Precondition without the isinstance assertion of line 246.
Precondition_NoTypeCheck(epsg_from, epsg_to, fields) ==
    IF epsg_from = epsg_to THEN "AssertionError: EPSG codes must be different"
    ELSE IF Len(fields) \notin {2, 3}
    THEN "AssertionError: Two or Three fields must be specified"
    ELSE "none"

\* Lines 241-246: the three assertions, in order; "none" when all pass.
Precondition(epsg_from, epsg_to, fields) ==
    IF epsg_from = epsg_to THEN "AssertionError: EPSG codes must be different"
    ELSE IF Len(fields) \notin {2, 3}
    THEN "AssertionError: Two or Three fields must be specified"
    ELSE IF \E i \in 1..Len(fields) : ~isinstance_str(fields[i])
    THEN "AssertionError: Fields must be strings"
    ELSE "none"

\* The records a caller's mapping holds for one id: the id and the three
\* coordinates, or a record lacking lat, or one lacking ellh.
FullRow(id, s) == [id |-> id, lat |-> 44 + id + s, lon |-> 8 + id + s,
                   ellh |-> 100 + 10 * id + s]
NoLatRow(id, s) == [id |-> id, lon |-> 8 + id + s, ellh |-> 100 + 10 * id + s]
NoEllhRow(id, s) == [id |-> id, lat |-> 44 + id + s, lon |-> 8 + id + s]

\* The mappings handed to project_to_utm: records and None entries (the
\* merge's missing images).
DataDicts ==
    UNION { DictsOver([i \in IDs |-> {FullRow(i, s), NoLatRow(i, s), NoEllhRow(i, s), Null}])
            : s \in Seeds }

\* Lines 273-300, one iteration of the loop on one row: the input row and
\* the row of out after it, and the exception it raises ("none" if none).
\* The check of lines 280-285 only logs: its continue continues the inner
\* for loop over fields, so the row is processed all the same.
RowStep(fields, suffix, in_place, epsg_to, row, outrow) ==
    IF row = Null
    THEN [row |-> row, outrow |-> outrow, exc |-> "none"]
    ELSE IF fields[1] \notin DOMAIN row \/ fields[2] \notin DOMAIN row
    THEN [row |-> row, outrow |-> outrow, exc |-> "KeyError"]
    ELSE LET xy == Transform(row[fields[1]], row[fields[2]], epsg_to)
             E == "E" \o suffix
             N == "N" \o suffix
             h == "h" \o suffix
         IN  IF in_place
             THEN LET r2 == Put(Put(row, E, xy[1]), N, xy[2])
                  IN  IF Len(fields) = 3
                      THEN IF fields[3] \in DOMAIN r2
                           THEN [row |-> Put(r2, h, r2[fields[3]]), outrow |-> outrow,
                                 exc |-> "none"]
                           ELSE [row |-> r2, outrow |-> outrow, exc |-> "KeyError"]
                      ELSE [row |-> r2, outrow |-> outrow, exc |-> "none"]
             ELSE LET o2 == Put(Put(outrow, E, xy[1]), N, xy[2])
                  IN  IF Len(fields) = 3
                      THEN IF fields[3] \in DOMAIN row
                           \* line 300 writes h into row, the input's record
                           THEN [row |-> Put(row, h, row[fields[3]]), outrow |-> o2,
                                 exc |-> "none"]
                           ELSE [row |-> row, outrow |-> o2, exc |-> "KeyError"]
                      ELSE [row |-> row, outrow |-> o2, exc |-> "none"]

\* The running (or last finished) call and the mapping it was handed.
Cur == calls[Len(calls)]
Target(c) == IF c.target = "data" THEN data_dict ELSE copy_dict

\* The second call repeats the first one's CRS codes, fields and suffix.
SameArgs(c, epsg_from, epsg_to, fields, suffix) ==
    /\ c.epsg_from = epsg_from /\ c.epsg_to = epsg_to
    /\ c.fields = fields /\ c.suffix = suffix

\* Lines 241-269: entry of the call up to the loop.
ProjectCall(target, epsg_from, epsg_to, fields, suffix, in_place) ==
    /\ \/ calls = <<>> /\ target = "data"
       \/ /\ Len(calls) = 1
          /\ Cur.fn = "dji" /\ Cur.pc = "returned"
          /\ SameArgs(Cur, epsg_from, epsg_to, fields, suffix)
    /\ LET pre == Precondition(epsg_from, epsg_to, fields)
           d == IF target = "data" THEN data_dict ELSE copy_dict
           c == [fn |-> "dji", target |-> target, epsg_from |-> epsg_from,
                 epsg_to |-> epsg_to, fields |-> fields, suffix |-> suffix,
                 in_place |-> in_place, pc |-> "loop", todo |-> DOMAIN d,
                 out |-> IF in_place THEN EmptyDict ELSE d,
                 ret |-> Unset, exc |-> "none"]
       IN  calls' = Append(calls,
              IF pre # "none"
              THEN [c EXCEPT !.pc = "raised", !.exc = pre, !.todo = {}, !.out = EmptyDict]
              ELSE IF TransformerFails(epsg_from, epsg_to)
              THEN [c EXCEPT !.pc = "failed", !.ret = RetNone, !.todo = {},
                             !.out = EmptyDict]
              ELSE c)
    /\ UNCHANGED <<data_dict, copy_dict, input0>>

\* Lines 271-300: one iteration of for key, row in data_dict.items().
ProjectRow(key) ==
    /\ calls # <<>> /\ Cur.fn = "dji" /\ Cur.pc = "loop" /\ key \in Cur.todo
    /\ LET c == Cur
           d == Target(c)
           r == RowStep(c.fields, c.suffix, c.in_place, c.epsg_to, d[key],
                        IF c.in_place THEN Null ELSE c.out[key])
           d2 == [d EXCEPT ![key] = r.row]
           c2 == [c EXCEPT !.todo = c.todo \ {key},
                           !.out = IF c.in_place THEN c.out
                                   ELSE [c.out EXCEPT ![key] = r.outrow],
                           !.pc = IF r.exc = "none" THEN "loop" ELSE "raised",
                           !.exc = r.exc]
       IN  /\ calls' = [calls EXCEPT ![Len(calls)] = c2]
           /\ IF c.target = "data"
              THEN data_dict' = d2 /\ UNCHANGED copy_dict
              ELSE copy_dict' = d2 /\ UNCHANGED data_dict
    /\ UNCHANGED input0

\* Lines 302-305: the loop is over, return None or out.
ProjectReturn ==
    /\ calls # <<>> /\ Cur.fn = "dji" /\ Cur.pc = "loop" /\ Cur.todo = {}
    /\ calls' = [calls EXCEPT ![Len(calls)] =
                    [Cur EXCEPT !.pc = "returned",
                                !.ret = IF Cur.in_place THEN RetNone ELSE RetDict(Cur.out)]]
    /\ UNCHANGED <<data_dict, copy_dict, input0>>

(***************************************************************************)
(* project_to_utm of the djimrk module (djimrk.py 187-246)                 *)
(***************************************************************************)
\* djimrk.py 210-212: the assertions; fields must hold exactly two names.
DjimrkPrecondition(epsg_from, epsg_to, fields) ==
    IF epsg_from = epsg_to THEN "AssertionError: EPSG codes must be different"
    ELSE IF Len(fields) # 2 THEN "AssertionError: Two fields must be specified"
    ELSE IF \E i \in 1..Len(fields) : ~isinstance_str(fields[i])
    THEN "AssertionError: Fields must be strings"
    ELSE "none"

\* djimrk.py 210-227: entry of the call; a CRS failure returns False.
DjimrkCall(epsg_from, epsg_to, fields, in_place) ==
    /\ calls = <<>>
    /\ LET pre == DjimrkPrecondition(epsg_from, epsg_to, fields)
           c == [fn |-> "djimrk", target |-> "data", epsg_from |-> epsg_from,
                 epsg_to |-> epsg_to, fields |-> fields, suffix |-> "",
                 in_place |-> in_place, pc |-> "loop", todo |-> DOMAIN data_dict,
                 out |-> EmptyDict, ret |-> Unset, exc |-> "none"]
       IN  calls' = Append(calls,
              IF pre # "none"
              THEN [c EXCEPT !.pc = "raised", !.exc = pre, !.todo = {}]
              ELSE IF TransformerFails(epsg_from, epsg_to)
              THEN [c EXCEPT !.pc = "failed", !.ret = RetFalse, !.todo = {}]
              ELSE c)
    /\ UNCHANGED <<data_dict, copy_dict, input0>>

\* djimrk.py 229-246: one iteration of for key in data_dict.keys().  A None
\* entry is skipped; the first record that is not None is projected and the
\* function returns from inside the loop (lines 241 and 246).
DjimrkRow(key) ==
    /\ calls # <<>> /\ Cur.fn = "djimrk" /\ Cur.pc = "loop" /\ key \in Cur.todo
    /\ LET c == Cur
           row == data_dict[key]
       IN  IF row = Null
           THEN /\ calls' = [calls EXCEPT ![Len(calls)] = [c EXCEPT !.todo = c.todo \ {key}]]
                /\ UNCHANGED data_dict
           ELSE IF c.fields[1] \notin DOMAIN row \/ c.fields[2] \notin DOMAIN row
           THEN /\ calls' = [calls EXCEPT ![Len(calls)] =
                               [c EXCEPT !.pc = "raised", !.exc = "KeyError"]]
                /\ UNCHANGED data_dict
           ELSE LET xy == Transform(row[c.fields[1]], row[c.fields[2]], c.epsg_to)
                    r2 == Put(Put(row, "E", xy[1]), "N", xy[2])
                IN  IF c.in_place
                    THEN /\ data_dict' = [data_dict EXCEPT ![key] = r2]
                         /\ calls' = [calls EXCEPT ![Len(calls)] =
                                        [c EXCEPT !.pc = "returned", !.ret = RetNone,
                                                  !.todo = c.todo \ {key}]]
                    ELSE /\ UNCHANGED data_dict
                         /\ calls' = [calls EXCEPT ![Len(calls)] =
                                        [c EXCEPT !.pc = "returned",
                                                  !.out = [data_dict EXCEPT ![key] = r2],
                                                  !.ret = RetDict([data_dict EXCEPT ![key] = r2]),
                                                  !.todo = c.todo \ {key}]]
    /\ UNCHANGED <<copy_dict, input0>>

\* djimrk.py 229: the loop ends without a record that is not None; the
\* function falls off its end and returns None.
DjimrkFallOff ==
    /\ calls # <<>> /\ Cur.fn = "djimrk" /\ Cur.pc = "loop" /\ Cur.todo = {}
    /\ calls' = [calls EXCEPT ![Len(calls)] = [Cur EXCEPT !.pc = "returned", !.ret = RetNone]]
    /\ UNCHANGED <<data_dict, copy_dict, input0>>

MergeIdle ==
    /\ mrk_dict = EmptyDict /\ exif_dict = EmptyDict /\ merged_dict = EmptyDict
    /\ merge_todo = {} /\ merge_pc = "idle" /\ merge_exc = "none"

InitProject ==
    /\ data_dict \in DataDicts
    /\ copy_dict = data_dict
    /\ input0 = data_dict
    /\ calls = <<>>
    /\ MergeIdle /\ MrkIdle /\ BilIdle /\ UtilIdle

NextProject ==
    \/ \E target \in {"data", "copy"}, epsg_from \in EPSGCodes, epsg_to \in EPSGCodes,
          fields \in FieldsChoices, suffix \in Suffixes, in_place \in BOOLEAN :
          ProjectCall(target, epsg_from, epsg_to, fields, suffix, in_place)
          /\ UNCHANGED <<mergeVars, mrkVars, bilVars, utilVars>>
    \/ \E key \in IDs : ProjectRow(key) /\ UNCHANGED <<mergeVars, mrkVars, bilVars, utilVars>>
    \/ ProjectReturn /\ UNCHANGED <<mergeVars, mrkVars, bilVars, utilVars>>
    \/ \E epsg_from \in EPSGCodes, epsg_to \in EPSGCodes, fields \in FieldsChoices,
          in_place \in BOOLEAN :
          DjimrkCall(epsg_from, epsg_to, fields, in_place) /\ UNCHANGED <<mergeVars, mrkVars, bilVars, utilVars>>
    \/ \E key \in IDs : DjimrkRow(key) /\ UNCHANGED <<mergeVars, mrkVars, bilVars, utilVars>>
    \/ DjimrkFallOff /\ UNCHANGED <<mergeVars, mrkVars, bilVars, utilVars>>

SpecProject == InitProject /\ [][NextProject]_vars

(***************************************************************************)
(* Properties of merge_mrk_exif_data, checked under SpecMerge              *)
(***************************************************************************)
NullEntries(d) == { k \in DOMAIN d : d[k] = Null }
UnmatchedIds == DOMAIN mrk_dict \ DOMAIN exif_dict
NullImageIds == { k \in DOMAIN mrk_dict \cap DOMAIN exif_dict : exif_dict[k] = Null }

\* C1: join completeness.  The mapping merge_mrk_exif_data returns has
\* exactly the keys of the log mapping: one entry per log id, either None or
\* the merged record of that id, and no id that only the image mapping holds;
\* while the loop runs the entries are exactly those of the ids visited.
C1_JoinCompleteness ==
    /\ merge_pc = "loop" => DOMAIN merged_dict = DOMAIN mrk_dict \ merge_todo
    /\ merge_pc = "returned" =>
          /\ DOMAIN merged_dict = DOMAIN mrk_dict
          /\ \A k \in DOMAIN merged_dict :
                merged_dict[k] = Null \/ merged_dict[k]["id"] = mrk_dict[k]["id"]

\* A merge that returned, over a log mapping with ids and an image mapping
\* holding an id the log does not.
C1_Witness ==
    /\ merge_pc = "returned"
    /\ DOMAIN mrk_dict # {}
    /\ DOMAIN exif_dict \ DOMAIN mrk_dict # {}

\* C4: a None image record is tolerated.  When the image mapping holds None
\* for the id of a log entry, the merge does not raise and the returned
\* mapping holds None for that id.
C4_NullImageTolerated ==
    NullImageIds # {} =>
        /\ merge_pc # "raised"
        /\ merge_pc = "returned" => \A k \in NullImageIds : merged_dict[k] = Null

\* C10: unmatched image.  A log id without a key in the image mapping gets a
\* None entry as soon as the loop has visited it, visiting it never raises
\* (a raise always comes from an id whose image record is None), and the
\* returned mapping holds as many None entries as there are unmatched ids.
C10_UnmatchedImageNull ==
    /\ merge_pc \in {"loop", "returned"} =>
          \A k \in UnmatchedIds \ merge_todo :
              k \in DOMAIN merged_dict /\ merged_dict[k] = Null
    /\ merge_pc = "raised" => merge_todo \cap NullImageIds # {}
    /\ merge_pc = "returned" =>
          Cardinality(NullEntries(merged_dict)) = Cardinality(UnmatchedIds)

\* A merge that returned with an unmatched id and a matched one.
C10_Witness ==
    /\ merge_pc = "returned"
    /\ UnmatchedIds # {}
    /\ \E k \in DOMAIN merged_dict : merged_dict[k] # Null

(***************************************************************************)
(* Properties of project_to_utm, checked under SpecProject                 *)
(***************************************************************************)
EField(c) == "E" \o c.suffix
NField(c) == "N" \o c.suffix
hField(c) == "h" \o c.suffix
NewFields(c) == {EField(c), NField(c)} \cup (IF Len(c.fields) = 3 THEN {hField(c)} ELSE {})

\* The calls of the dji module made so far.
DjiCalls == { i \in 1..Len(calls) : calls[i].fn = "dji" }

\* Two functions agree on a field: both lack it or both hold the same value.
SameField(r1, r2, f) ==
    /\ f \in DOMAIN r1 <=> f \in DOMAIN r2
    /\ f \in DOMAIN r1 => r1[f] = r2[f]

\* C2: in_place equivalence.  After project_to_utm(in_place=False) on the
\* original and project_to_utm(in_place=True) with the same arguments on a
\* copy, both returned, every record of the copy has the same E, N (and h
\* with 3 fields) as the record of the returned mapping.
C2_InPlaceEquivalence ==
    ( /\ Len(calls) = 2
      /\ calls[1].fn = "dji" /\ calls[1].pc = "returned" /\ ~calls[1].in_place
      /\ calls[2].pc = "returned" /\ calls[2].in_place /\ calls[2].target = "copy" )
    => \A k \in DOMAIN input0 :
          input0[k] # Null =>
             \A f \in NewFields(calls[1]) :
                SameField(copy_dict[k], calls[1].ret.val[k], f)

\* C3: in_place=False leaves the input untouched.  During and after a first
\* call with in_place=False the caller's mapping is what it was before.
C3_InputUntouched ==
    ( /\ Len(calls) = 1
      /\ calls[1].fn = "dji" /\ ~calls[1].in_place )
    => data_dict = input0

\* C5: a record lacking a declared field is skipped.  No call of
\* project_to_utm ends in the KeyError of a missing field.
C5_FieldMismatchSkipped ==
    \A i \in DjiCalls : calls[i].exc # "KeyError"

\* The mapping a finished call delivers its result in.
HasResult(c) == c.in_place \/ c.ret.kind = "dict"
Result(c) == IF c.in_place THEN Target(c) ELSE c.ret.val
HasDeclared(row, c) == \A i \in 1..Len(c.fields) : c.fields[i] \in DOMAIN row

\* C6: a None record does not fail the batch.  A call never raises because
\* of a None entry (a KeyError needs a record lacking a field), and when it
\* has returned on a mapping that holds a record, None entries are still
\* None and every record holding the declared fields carries E and N in the
\* result.
C6_NullDoesNotFailBatch ==
    Len(calls) = 1 =>
       LET c == calls[1] IN
       /\ c.exc = "KeyError" =>
             \E k \in DOMAIN input0 : input0[k] # Null /\ ~HasDeclared(input0[k], c)
       /\ (c.pc = "returned" /\ \E k \in DOMAIN input0 : input0[k] # Null) =>
             /\ HasResult(c)
             /\ \A k \in DOMAIN input0 :
                   IF input0[k] = Null
                   THEN Result(c)[k] = Null
                   ELSE HasDeclared(input0[k], c) =>
                           {EField(c), NField(c)} \subseteq DOMAIN Result(c)[k]

\* C6, restricted to the dji module: a call of dji.project_to_utm satisfies
\* the property; the violation comes from the djimrk module alone.
C6_HoldsForDjiModule ==
    (calls # <<>> /\ calls[1].fn = "dji") => C6_NullDoesNotFailBatch

AssertionErrors ==
    { "AssertionError: EPSG codes must be different",
      "AssertionError: Two or Three fields must be specified",
      "AssertionError: Fields must be strings" }

\* The arguments violate a precondition of lines 241-246.
BadArgs(c) ==
    \/ c.epsg_from = c.epsg_to
    \/ Len(c.fields) \notin {2, 3}
    \/ \E i \in 1..Len(c.fields) : c.fields[i] = NonStr

BadCRS(c) ==
    \/ CRSKind(c.epsg_from) # "geographic"
    \/ CRSKind(c.epsg_to) # "projected"

\* C8: a CRS misconfiguration aborts the whole projection.  A call whose
\* arguments pass the assertions but whose CRS pair cannot be used returns
\* None without raising, in both in_place modes, and no record of either
\* mapping has gained or changed a field.
C8_CRSFailureAborts ==
    \A i \in DjiCalls :
       LET c == calls[i] IN
       (~BadArgs(c) /\ BadCRS(c)) =>
          /\ c.pc = "failed" /\ c.exc = "none" /\ c.ret = RetNone
          /\ c.todo = {} /\ c.out = EmptyDict
          /\ data_dict = input0 /\ copy_dict = input0

\* A call towards a CRS that is not projected, in place, on a mapping that
\* holds a record with the declared fields.
C8_Witness ==
    /\ Len(calls) = 1 /\ calls[1].fn = "dji"
    /\ calls[1].epsg_from = 4326 /\ calls[1].epsg_to = 4978
    /\ calls[1].in_place /\ calls[1].pc = "failed"
    /\ \E k \in DOMAIN data_dict :
          data_dict[k] # Null /\ HasDeclared(data_dict[k], calls[1])

\* C9: height pass-through.  After a call with 3 fields has returned, every
\* record of its result (the mutated mapping when in_place, the returned
\* mapping otherwise) carries h+suffix, equal to its third declared field.
C9_HeightPassThrough ==
    \A i \in DjiCalls :
       LET c == calls[i] IN
       (i = Len(calls) /\ c.pc = "returned" /\ Len(c.fields) = 3) =>
          \A k \in DOMAIN Result(c) :
             Result(c)[k] # Null =>
                /\ hField(c) \in DOMAIN Result(c)[k]
                /\ Result(c)[k][hField(c)] = Result(c)[k][c.fields[3]]

\* ---------------------------------------------------------------------
\* mrkread (dji.py): a .mrk file is a sequence of lines, a line a sequence
\* of characters (strings of length one), a field a sequence of characters.
\* ---------------------------------------------------------------------

MaxLines == 2

Digits == <<"0", "1", "2", "3", "4", "5", "6", "7", "8", "9">>

DigitVal(ch) == (CHOOSE d \in 1..10 : Digits[d] = ch) - 1

IsDigit(ch) == \E d \in 1..10 : Digits[d] = ch

Delimiters_NoPipe == {",", "\t", "\n"}

\* The separators of the regular expression ",|\t|[|]|\n".
Delimiters == {",", "\t", "|", "\n"}

RECURSIVE SplitFrom(_, _, _, _)
SplitFrom(line, i, cur, acc) ==
    IF i > Len(line) THEN Append(acc, cur)
    ELSE IF line[i] \in Delimiters
         THEN SplitFrom(line, i + 1, <<>>, Append(acc, cur))
         ELSE SplitFrom(line, i + 1, Append(cur, line[i]), acc)

\* re.split: the fields between the separators, empty fields included (a
\* line that ends with "\n" yields a last, empty field).
Split(line) == SplitFrom(line, 1, <<>>, <<>>)

\* np.float_ of a field.  The numeric fields of the model are unsigned
\* decimal digit strings; any other field, the empty one included, is not
\* a number (ValueError).
IsFloat(tok) == Len(tok) > 0 /\ \A i \in 1..Len(tok) : IsDigit(tok[i])

RECURSIVE Float(_)
Float(tok) ==
    IF Len(tok) = 0 THEN 0
    ELSE 10 * Float(SubSeq(tok, 1, Len(tok) - 1)) + DigitVal(tok[Len(tok)])

RECURSIVE ToDigits(_)
ToDigits(n) ==
    IF n < 10 THEN <<Digits[n + 1]>>
    ELSE Append(ToDigits(n \div 10), Digits[(n % 10) + 1])

RECURSIVE ZeroPad(_, _)
ZeroPad(ds, width) == IF Len(ds) >= width THEN ds ELSE ZeroPad(<<"0">> \o ds, width)

Format03d_Truncate(v) == ZeroPad(ToDigits(v % 1000), 3)

\* "%03d" % v: the decimal digits of v, zero-padded on the left to a width
\* of at least 3.
Format03d(v) == ZeroPad(ToDigits(v), 3)

\* int(...) of a digit string.
IntParse(ds) == Float(ds)

\* The order in which the loop body reads the fields of a line.
MrkOrder == <<0, 1, 9, 11, 13, 15, 16, 17, 3, 5, 7, 18, 19>>

\* Reading position p of the fields f: line[p] raises IndexError past the
\* end, np.float_ raises ValueError on a field that is not a number; the
\* field at position 19 is not converted.
FieldError(f, p) ==
    IF p >= Len(f) THEN "IndexError"
    ELSE IF p # 19 /\ ~IsFloat(f[p + 1]) THEN "ValueError"
    ELSE "none"

LineError(f) ==
    LET bad == {n \in 1..Len(MrkOrder) : FieldError(f, MrkOrder[n]) # "none"}
    IN  IF bad = {} THEN "none"
        ELSE FieldError(f, MrkOrder[CHOOSE n \in bad : \A m \in bad : n <= m])

\* The record built from the fields f of a line (f[p + 1] is line[p]).
MrkData(f) ==
    [id         |-> IntParse(Format03d(Float(f[1]))),
     clock_time |-> Float(f[2]),
     lat        |-> Float(f[10]),
     lon        |-> Float(f[12]),
     ellh       |-> Float(f[14]),
     stdE       |-> Float(f[16]),
     stdN       |-> Float(f[17]),
     stdV       |-> Float(f[18]),
     dE         |-> Float(f[4]),
     dN         |-> Float(f[6]),
     dV         |-> Float(f[8]),
     Qual       |-> Float(f[19]),
     Flag       |-> f[20]]

Store_KeepFirst(d, k, v) == IF k \in DOMAIN d THEN d ELSE Put(d, k, v)

\* outdata[id] = data
Store(d, k, v) == Put(d, k, v)

Lower_Identity(cs) == cs

LowerChar(ch) ==
    CASE ch = "M" -> "m" [] ch = "R" -> "r" [] ch = "K" -> "k"
      [] ch = "T" -> "t" [] ch = "X" -> "x" [] OTHER -> ch

\* str.lower, character by character.
Lower(cs) == [i \in 1..Len(cs) |-> LowerChar(cs[i])]

MrkSuffix == <<".", "m", "r", "k">>

\* The two assertions of mrkread.
MrkPrecondition(path) == path.exists /\ Lower(path.suffix) = MrkSuffix

\* --- the files the model reads ---

PointIds == {<<"5">>, <<"1", "0", "0", "5">>, <<"6">>}

Label(p) ==
    CASE p = 2 -> <<"w">> [] p = 4 -> <<"N">> [] p = 6 -> <<"E">>
      [] p = 8 -> <<"V">> [] p = 10 -> <<"L", "a", "t">>
      [] p = 12 -> <<"L", "o", "n">> [] p = 14 -> <<"E", "l", "l", "h">>
      [] OTHER -> <<"Q">>

NumericPositions == {0, 1, 3, 5, 7, 9, 11, 13, 15, 16, 17, 18}

\* The 20 fields of a line of the format: every numeric position holds a
\* value of its own, so that a field taken from another position shows.
GoodTokens(id, s) ==
    [n \in 1..20 |->
        IF n = 1 THEN id
        ELSE IF (n - 1) \in NumericPositions THEN ToDigits(10 + (n - 1) + 30 * s)
        ELSE Label(n - 1)]

Patterns == {"comma", "tab", "mixed"}

Delim(pattern, i) ==
    CASE pattern = "comma" -> ","
      [] pattern = "tab"   -> "\t"
      [] OTHER -> <<",", "\t", "|">>[(i % 3) + 1]

RECURSIVE Join(_, _, _)
Join(toks, pattern, n) ==
    IF n = 1 THEN toks[1]
    ELSE Join(toks, pattern, n - 1) \o <<Delim(pattern, n - 1)>> \o toks[n]

\* A line of the file: the fields, separated, and the end of line.
Line(toks, pattern) == Join(toks, pattern, Len(toks)) \o <<"\n">>

\* Lines that are not of the format: a field too many, the last field
\* missing, half of the fields missing, an empty line (one empty field), a
\* latitude that is not a number.
BadTokens ==
    LET g == GoodTokens(<<"7">>, 0)
    IN  { Append(g, <<"9">>),
          SubSeq(g, 1, 19),
          SubSeq(g, 1, 10),
          << <<>> >>,
          [g EXCEPT ![10] = <<"x">>] }

WellFormed(toks) ==
    /\ Len(toks) = 20
    /\ \A p \in NumericPositions : IsFloat(toks[p + 1])

\* A written line: its fields and the separators between them.
WrittenLines ==
    {[toks |-> GoodTokens(id, s), pattern |-> pat] :
        id \in PointIds, s \in Seeds, pat \in Patterns}
    \cup {[toks |-> t, pattern |-> "comma"] : t \in BadTokens}

RECURSIVE SeqsUpTo(_, _)
SeqsUpTo(S, n) ==
    IF n = 0 THEN {<<>>}
    ELSE LET shorter == SeqsUpTo(S, n - 1)
         IN  shorter \cup {Append(q, x) : q \in {r \in shorter : Len(r) = n - 1}, x \in S}

MrkFiles == SeqsUpTo(WrittenLines, MaxLines)

MrkPaths ==
    [exists : BOOLEAN,
     suffix : {MrkSuffix, <<".", "M", "R", "K">>, <<".", "M", "r", "k">>,
               <<".", "t", "x", "t">>, <<>>}]

\* re.split of every line read from the file.
indata == [i \in 1..Len(mrk_file) |-> Split(mrk_file[i])]

\* mrkread(fname), lines 98-105: the assertions, then the file is read.
MrkCall ==
    /\ mrk_pc = "idle"
    /\ IF MrkPrecondition(mrk_path)
       THEN /\ mrk_opened' = TRUE
            /\ mrk_pc' = "lines"
            /\ mrk_exc' = "none"
       ELSE /\ mrk_opened' = FALSE
            /\ mrk_pc' = "raised"
            /\ mrk_exc' = "AssertionError"
    /\ UNCHANGED <<mrk_path, mrk_file, mrk_tokens, mrk_i, outdata>>

\* One iteration of the loop of lines 107-125.
MrkLine ==
    /\ mrk_pc = "lines"
    /\ mrk_i < Len(mrk_file)
    /\ LET f == indata[mrk_i + 1]
       IN  IF LineError(f) = "none"
           THEN /\ outdata' = Store(outdata, MrkData(f).id, MrkData(f))
                /\ mrk_i' = mrk_i + 1
                /\ UNCHANGED <<mrk_pc, mrk_exc>>
           ELSE /\ mrk_pc' = "raised"
                /\ mrk_exc' = LineError(f)
                /\ UNCHANGED <<mrk_i, outdata>>
    /\ UNCHANGED <<mrk_path, mrk_file, mrk_tokens, mrk_opened>>

\* return outdata
MrkReturn ==
    /\ mrk_pc = "lines"
    /\ mrk_i = Len(mrk_file)
    /\ mrk_pc' = "returned"
    /\ UNCHANGED <<mrk_path, mrk_file, mrk_tokens, mrk_opened, mrk_i, outdata, mrk_exc>>

\* A path that the assertions accept names any of the files; the other
\* paths name nothing or a file of at most one line.
InitMrk ==
    /\ \E path \in MrkPaths, file \in MrkFiles :
          /\ path.suffix # MrkSuffix => Len(file) <= 1
          /\ ~path.exists => file = <<>>
          /\ mrk_path = path
          /\ mrk_tokens = [i \in 1..Len(file) |-> file[i].toks]
          /\ mrk_file = [i \in 1..Len(file) |-> Line(file[i].toks, file[i].pattern)]
    /\ mrk_pc = "idle" /\ mrk_opened = FALSE /\ mrk_i = 0
    /\ outdata = EmptyDict /\ mrk_exc = "none"
    /\ MergeIdle /\ ProjIdle /\ BilIdle /\ UtilIdle

NextMrk ==
    \/ MrkCall /\ UNCHANGED <<mergeVars, projVars, bilVars, utilVars>>
    \/ MrkLine /\ UNCHANGED <<mergeVars, projVars, bilVars, utilVars>>
    \/ MrkReturn /\ UNCHANGED <<mergeVars, projVars, bilVars, utilVars>>

SpecMrk == InitMrk /\ [][NextMrk]_vars

\* ---------------------------------------------------------------------
\* Properties of mrkread
\* ---------------------------------------------------------------------

\* The fields the last parsed line was written from, and the record that
\* outdata holds under the point ID of that line.
LastTokens == mrk_tokens[mrk_i]

LastId == Float(LastTokens[1])

\* C11: the delta and standard-deviation fields by the documented
\* positions.  The record of a parsed line of the format has dN / dE / dV
\* from positions 3 / 5 / 7 and stdN / stdE / stdV from 15 / 16 / 17.
C11_DocumentedPositions ==
    (mrk_i >= 1 /\ WellFormed(LastTokens)) =>
       /\ LastId \in DOMAIN outdata
       /\ LET r == outdata[LastId] IN
          /\ r.dN = Float(LastTokens[4])
          /\ r.dE = Float(LastTokens[6])
          /\ r.dV = Float(LastTokens[8])
          /\ r.stdN = Float(LastTokens[16])
          /\ r.stdE = Float(LastTokens[17])
          /\ r.stdV = Float(LastTokens[18])

\* What dji.py does instead: the east and north components are exchanged.
C11_EastNorthExchanged ==
    (mrk_i >= 1 /\ WellFormed(LastTokens)) =>
       /\ LastId \in DOMAIN outdata
       /\ LET r == outdata[LastId] IN
          /\ r.dE = Float(LastTokens[4])
          /\ r.dN = Float(LastTokens[6])
          /\ r.dV = Float(LastTokens[8])
          /\ r.stdE = Float(LastTokens[16])
          /\ r.stdN = Float(LastTokens[17])
          /\ r.stdV = Float(LastTokens[18])

\* C12: the split is on the union of comma, tab and pipe.  Whatever
\* separators a line was written with, its split is the fields it was
\* written from (and the empty field after the end of line), and the record
\* of a parsed line has id, clock_time, lat, lon, ellh and Qual from the
\* fields at positions 0, 1, 9, 11, 13 and 18 and Flag, unparsed, from 19.
C12_SplitOnUnion ==
    /\ mrk_opened =>
          \A i \in 1..Len(mrk_file) : indata[i] = Append(mrk_tokens[i], <<>>)
    /\ (mrk_i >= 1 /\ Len(LastTokens) >= 20) =>
          /\ LastId \in DOMAIN outdata
          /\ LET r == outdata[LastId] IN
             /\ r.id = Float(LastTokens[1])
             /\ r.clock_time = Float(LastTokens[2])
             /\ r.lat = Float(LastTokens[10])
             /\ r.lon = Float(LastTokens[12])
             /\ r.ellh = Float(LastTokens[14])
             /\ r.Qual = Float(LastTokens[19])
             /\ r.Flag = LastTokens[20]

\* A file of two lines written from the same fields, one with commas, tabs
\* and pipes mixed, has been parsed to its end.
C12_Witness ==
    /\ mrk_pc = "returned" /\ mrk_i = 2
    /\ mrk_tokens[1] = mrk_tokens[2]
    /\ mrk_file[1] # mrk_file[2]
    /\ \E n \in 1..Len(mrk_file[2]) : mrk_file[2][n] = "|"
    /\ \E n \in 1..Len(mrk_file[2]) : mrk_file[2][n] = "\t"

\* C13: a malformed line fails the parse.  When a line of the file is not
\* of the format (its field count is not 20, or a numeric position does not
\* hold a number), mrkread does not return.
C13_MalformedLineFails ==
    (\E i \in 1..Len(mrk_tokens) : ~WellFormed(mrk_tokens[i])) => mrk_pc # "returned"

\* What does hold: a line that lacks a field the loop reads, or holds a
\* field that is not a number where the loop converts one, ends the call
\* with an exception.
C13_ReadFieldsChecked ==
    (\E i \in 1..Len(mrk_tokens) :
        \/ Len(mrk_tokens[i]) < 19
        \/ \E p \in NumericPositions :
              p < Len(mrk_tokens[i]) /\ ~IsFloat(mrk_tokens[i][p + 1]))
    => mrk_pc # "returned"

\* C14 as stated: the key of a parsed line is its point ID modulo 1000.
C14_KeyModulo1000 ==
    mrk_i >= 1 =>
       /\ (LastId % 1000) \in DOMAIN outdata
       /\ outdata[LastId % 1000].id = LastId % 1000

\* C14: the key of a parsed line is its point ID itself, whatever its
\* width (3 digits is the least width of the rendering, not the greatest),
\* so lines of different point IDs never share a key.
C14_KeyIsPointId ==
    /\ mrk_i >= 1 =>
          /\ LastId \in DOMAIN outdata
          /\ outdata[LastId].id = LastId
    /\ mrk_pc = "returned" =>
          DOMAIN outdata = {Float(mrk_tokens[i][1]) : i \in 1..Len(mrk_tokens)}

\* A file that holds the point IDs 5 and 1005 has been parsed to its end.
C14_Witness ==
    /\ mrk_pc = "returned"
    /\ \E i, j \in 1..Len(mrk_tokens) :
          /\ mrk_tokens[i][1] = <<"5">>
          /\ mrk_tokens[j][1] = <<"1", "0", "0", "5">>
    /\ {5, 1005} \subseteq DOMAIN outdata

\* The key of line i of the file.
KeyOf(i) == Float(mrk_tokens[i][1])

\* C15: last write wins.  When mrkread has returned, outdata holds one
\* record for each point ID of the file, equal to the record of the last
\* line of that ID in file order.
C15_LastWriteWins ==
    mrk_pc = "returned" =>
       /\ DOMAIN outdata = {KeyOf(i) : i \in 1..Len(mrk_file)}
       /\ \A k \in DOMAIN outdata :
             LET same == {i \in 1..Len(mrk_file) : KeyOf(i) = k}
                 last == CHOOSE i \in same : \A j \in same : j <= i
             IN  outdata[k] = MrkData(indata[last])

\* A file of two lines of the same point ID and different values has been
\* parsed to its end.
C15_Witness ==
    /\ mrk_pc = "returned" /\ Len(mrk_file) = 2
    /\ KeyOf(1) = KeyOf(2)
    /\ MrkData(indata[1]) # MrkData(indata[2])

\* The suffixes of the model that are .mrk up to case.
MrkSuffixesAnyCase == {MrkSuffix, <<".", "M", "R", "K">>, <<".", "M", "r", "k">>}

\* C16: validation before reading.  A call on a path that does not exist,
\* or whose suffix is not .mrk up to case, ends with an AssertionError and
\* the file is never opened; a call on an existing path with the suffix
\* .mrk, .MRK or .Mrk passes the assertions and opens the file.
C16_ValidatedBeforeOpen ==
    /\ (~mrk_path.exists \/ mrk_path.suffix \notin MrkSuffixesAnyCase) =>
          /\ ~mrk_opened
          /\ mrk_pc # "idle" => (mrk_pc = "raised" /\ mrk_exc = "AssertionError")
    /\ (mrk_pc # "idle" /\ mrk_path.exists /\ mrk_path.suffix \in MrkSuffixesAnyCase) =>
          mrk_opened /\ mrk_exc # "AssertionError"

\* A call on an existing file of one line whose suffix is .txt has ended.
C16_Witness ==
    /\ mrk_path.exists /\ mrk_path.suffix = <<".", "t", "x", "t">>
    /\ Len(mrk_file) = 1
    /\ mrk_pc = "raised" /\ mrk_exc = "AssertionError" /\ ~mrk_opened

\* ---------------------------------------------------------------------
\* bilinear_interpolate (transformations.py), for one query point.  The
\* coordinates are fixed-point numbers: qx and qy count 1/Scale of a cell,
\* and the returned value is kept multiplied by Scale * Scale.
\* ---------------------------------------------------------------------

MaxDim == 2

Scale == 2

\* im.shape[0] and im.shape[1]
Height == Len(im)

Width == Len(im[1])

\* A raster of h rows and w columns; its cells are positive and differ.
Raster(h, w, s) ==
    [r \in 1..h |-> [c \in 1..w |-> 1 + (c - 1) + 3 * (r - 1) + 5 * s * (r - 1) * (c - 1)]]

Rasters == {Raster(h, w, s) : h \in 1..MaxDim, w \in 1..MaxDim, s \in Seeds}

\* The query coordinates reach from one cell before the raster to one cell
\* past the largest raster.
Queries == (0 - Scale)..((MaxDim + 1) * Scale)

\* np.floor(x).astype(int)
Floor(q) == q \div Scale

Clip_LowerOnly(v, lo, hi) == IF v < lo THEN lo ELSE v

\* np.clip(v, lo, hi)
Clip(v, lo, hi) == IF v < lo THEN lo ELSE IF v > hi THEN hi ELSE v

\* im[r, c]: an index in -n..n-1 is in bounds on an axis of length n, a
\* negative one counting from the end; any other index raises IndexError.
InBounds(r, c) ==
    /\ 0 - Height <= r /\ r < Height
    /\ 0 - Width <= c /\ c < Width

At(r, c) == im[(r % Height) + 1][(c % Width) + 1]

\* lines 163-174: floor, the neighbours, and the clipping.
BilinearCall ==
    /\ bl.pc = "idle"
    /\ bl' = [bl EXCEPT !.pc = "clipped",
                        !.x0 = Clip(Floor(qx), 0, Width - 1),
                        !.x1 = Clip(Floor(qx) + 1, 0, Width - 1),
                        !.y0 = Clip(Floor(qy), 0, Height - 1),
                        !.y1 = Clip(Floor(qy) + 1, 0, Height - 1)]
    /\ UNCHANGED <<im, qx, qy, reads>>

\* lines 176-179: the four reads of the raster.
BilinearRead ==
    /\ bl.pc = "clipped"
    /\ reads' = {<<bl.y0, bl.x0>>, <<bl.y1, bl.x0>>, <<bl.y0, bl.x1>>, <<bl.y1, bl.x1>>}
    /\ IF \A rc \in reads' : InBounds(rc[1], rc[2])
       THEN bl' = [bl EXCEPT !.pc = "read",
                             !.Ia = At(bl.y0, bl.x0),
                             !.Ib = At(bl.y1, bl.x0),
                             !.Ic = At(bl.y0, bl.x1),
                             !.Id = At(bl.y1, bl.x1)]
       ELSE bl' = [bl EXCEPT !.pc = "raised", !.exc = "IndexError"]
    /\ UNCHANGED <<im, qx, qy>>

\* lines 181-186: the weights (each multiplied by Scale * Scale) and the
\* weighted sum.
BilinearReturn ==
    /\ bl.pc = "read"
    /\ LET wa == (bl.x1 * Scale - qx) * (bl.y1 * Scale - qy)
           wb == (bl.x1 * Scale - qx) * (qy - bl.y0 * Scale)
           wc == (qx - bl.x0 * Scale) * (bl.y1 * Scale - qy)
           wd == (qx - bl.x0 * Scale) * (qy - bl.y0 * Scale)
       IN  bl' = [bl EXCEPT !.pc = "returned",
                            !.ret = wa * bl.Ia + wb * bl.Ib + wc * bl.Ic + wd * bl.Id]
    /\ UNCHANGED <<im, qx, qy, reads>>

InitBilinear ==
    /\ im \in Rasters
    /\ qx \in Queries /\ qy \in Queries
    /\ bl = NoLocals /\ reads = {}
    /\ MergeIdle /\ ProjIdle /\ MrkIdle /\ UtilIdle

NextBilinear ==
    \/ BilinearCall /\ UNCHANGED <<mergeVars, projVars, mrkVars, utilVars>>
    \/ BilinearRead /\ UNCHANGED <<mergeVars, projVars, mrkVars, utilVars>>
    \/ BilinearReturn /\ UNCHANGED <<mergeVars, projVars, mrkVars, utilVars>>

SpecBilinear == InitBilinear /\ [][NextBilinear]_vars

\* The query point lies on the grid node (row r, column c).
OnNode(r, c) == qx = c * Scale /\ qy = r * Scale

\* C17: the value on a grid node.  A call whose query point lies on a node
\* of the raster returns the value of that node.
C17_NodeValue ==
    bl.pc = "returned" =>
       \A r \in 0..(Height - 1), c \in 0..(Width - 1) :
          OnNode(r, c) => bl.ret = Scale * Scale * im[r + 1][c + 1]

\* What does hold: the nodes that are neither in the last row nor in the
\* last column return their value.
C17_HoldsOffLastRowAndColumn ==
    bl.pc = "returned" =>
       \A r \in 0..(Height - 2), c \in 0..(Width - 2) :
          OnNode(r, c) => bl.ret = Scale * Scale * im[r + 1][c + 1]

\* C18: no read out of bounds.  Whatever the query point, the call never
\* raises, and the four (row, column) pairs it reads lie in
\* 0..height-1 and 0..width-1.
C18_ReadsInBounds ==
    /\ bl.pc # "raised"
    /\ \A rc \in reads : rc[1] \in 0..(Height - 1) /\ rc[2] \in 0..(Width - 1)
    /\ bl.pc \in {"read", "returned"} => reads # {}

\* A call has returned for a query point left of the first column and
\* below the last row of the raster.
C18_Witness ==
    /\ bl.pc = "returned"
    /\ qx < 0 /\ qy > (Height - 1) * Scale
    /\ reads # {}

\* ---------------------------------------------------------------------
\* project_to_utm as the tests call it
\* ---------------------------------------------------------------------

\* project_to_utm(epsg_from, epsg_to, data_dict) of dji.py has returned:
\* fields, suffix and in_place are the defaults, and every entry of the
\* mapping is a record with lat, lon and ellh, as in the tests.
TestCallReturned ==
    /\ Len(calls) = 1 /\ calls[1].fn = "dji" /\ calls[1].target = "data"
    /\ calls[1].pc = "returned"
    /\ calls[1].fields = <<"lat", "lon">> /\ calls[1].suffix = ""
    /\ ~calls[1].in_place
    /\ DOMAIN input0 # {}
    /\ \A k \in DOMAIN input0 :
          input0[k] # Null /\ {"lat", "lon", "ellh"} \subseteq DOMAIN input0[k]

\* bool(ret) of a returned value.
Truthy(ret) == ret.kind = "dict" /\ DOMAIN ret.val # {}

\* C19: the assertions of test_project_to_utm.  After the call the returned
\* value is truthy, and every record of the caller's data_dict carries N
\* and E, with its ellh as before.
C19_TestAssertions ==
    TestCallReturned =>
       /\ Truthy(calls[1].ret)
       /\ \A k \in DOMAIN data_dict :
             /\ "N" \in DOMAIN data_dict[k]
             /\ "E" \in DOMAIN data_dict[k]
             /\ data_dict[k]["ellh"] = input0[k]["ellh"]

\* What does hold: the value is truthy, N and E are in the records of the
\* returned mapping, and data_dict is as it was.
C19_ReturnedMappingCarriesNE ==
    TestCallReturned =>
       /\ Truthy(calls[1].ret)
       /\ data_dict = input0
       /\ \A k \in DOMAIN input0 :
             LET row == calls[1].ret.val[k] IN
             /\ {"N", "E"} \subseteq DOMAIN row
             /\ <<row["E"], row["N"]>>
                   = Transform(input0[k]["lat"], input0[k]["lon"], calls[1].epsg_to)
             /\ row["ellh"] = input0[k]["ellh"]

\* ---------------------------------------------------------------------
\* Two project_to_utm calls of dji.py, both with in_place=False, running
\* concurrently on the same data_dict.  A step of a thread is the copy of
\* one record by deepcopy (begun, then ended) or one iteration of the loop;
\* the steps of the two threads interleave freely.
\* ---------------------------------------------------------------------

Threads == {1, 2}

ConcFields == {<<"lat", "lon">>, <<"lat", "lon", "ellh">>}

\* Entry of a call with valid arguments, up to deepcopy (lines 241-269).
ConcCall(fields, suffix) ==
    /\ Len(calls) < 2
    /\ calls' = Append(calls,
          [fn |-> "dji", target |-> "data", epsg_from |-> 4326, epsg_to |-> 32632,
           fields |-> fields, suffix |-> suffix, in_place |-> FALSE,
           pc |-> IF DOMAIN data_dict = {} THEN "loop" ELSE "copy",
           copy_todo |-> DOMAIN data_dict, snap_key |-> 0, snap |-> Null,
           todo |-> DOMAIN data_dict, out |-> EmptyDict,
           ret |-> Unset, exc |-> "none"])
    /\ UNCHANGED <<data_dict, copy_dict, input0>>

\* deepcopy (line 269) starts to iterate over the record under key.
ConcCopyBegin(i, key) ==
    /\ i <= Len(calls)
    /\ calls[i].pc = "copy" /\ calls[i].snap_key = 0 /\ key \in calls[i].copy_todo
    /\ calls' = [calls EXCEPT ![i] = [@ EXCEPT !.snap_key = key, !.snap = data_dict[key]]]
    /\ UNCHANGED <<data_dict, copy_dict, input0>>

\* deepcopy ends the iteration over the record: a record that gained a
\* field meanwhile raises RuntimeError (dictionary changed size during
\* iteration), otherwise its copy is stored in out.
ConcCopyEnd(i) ==
    /\ i <= Len(calls)
    /\ calls[i].pc = "copy" /\ calls[i].snap_key # 0
    /\ LET c == calls[i]
           left == c.copy_todo \ {c.snap_key}
       IN  calls' = [calls EXCEPT ![i] =
              IF data_dict[c.snap_key] # c.snap
              THEN [c EXCEPT !.pc = "raised", !.exc = "RuntimeError"]
              ELSE [c EXCEPT !.out = Put(c.out, c.snap_key, c.snap),
                             !.copy_todo = left, !.snap_key = 0, !.snap = Null,
                             !.pc = IF left = {} THEN "loop" ELSE "copy"]]
    /\ UNCHANGED <<data_dict, copy_dict, input0>>

\* One iteration of the loop of lines 271-300 by thread i.
ConcRow(i, key) ==
    /\ i <= Len(calls)
    /\ calls[i].pc = "loop" /\ key \in calls[i].todo
    /\ LET c == calls[i]
           r == RowStep(c.fields, c.suffix, FALSE, c.epsg_to, data_dict[key], c.out[key])
       IN  /\ calls' = [calls EXCEPT ![i] =
                 [c EXCEPT !.todo = c.todo \ {key},
                           !.out = [c.out EXCEPT ![key] = r.outrow],
                           !.pc = IF r.exc = "none" THEN "loop" ELSE "raised",
                           !.exc = r.exc]]
           /\ data_dict' = [data_dict EXCEPT ![key] = r.row]
    /\ UNCHANGED <<copy_dict, input0>>

\* return out (line 305)
ConcReturn(i) ==
    /\ i <= Len(calls)
    /\ calls[i].pc = "loop" /\ calls[i].todo = {}
    /\ calls' = [calls EXCEPT ![i] =
                    [calls[i] EXCEPT !.pc = "returned", !.ret = RetDict(calls[i].out)]]
    /\ UNCHANGED <<data_dict, copy_dict, input0>>

InitConc ==
    /\ data_dict \in DataDicts
    /\ input0 = data_dict
    /\ copy_dict = EmptyDict
    /\ calls = <<>>
    /\ MergeIdle /\ MrkIdle /\ BilIdle /\ UtilIdle

NextConc ==
    \/ \E fields \in ConcFields, suffix \in Suffixes :
          ConcCall(fields, suffix) /\ UNCHANGED <<mergeVars, mrkVars, bilVars, utilVars>>
    \/ \E i \in Threads, key \in IDs :
          ConcCopyBegin(i, key) /\ UNCHANGED <<mergeVars, mrkVars, bilVars, utilVars>>
    \/ \E i \in Threads : ConcCopyEnd(i) /\ UNCHANGED <<mergeVars, mrkVars, bilVars, utilVars>>
    \/ \E i \in Threads, key \in IDs :
          ConcRow(i, key) /\ UNCHANGED <<mergeVars, mrkVars, bilVars, utilVars>>
    \/ \E i \in Threads : ConcReturn(i) /\ UNCHANGED <<mergeVars, mrkVars, bilVars, utilVars>>

SpecConc == InitConc /\ [][NextConc]_vars

\* What the call c does when it runs alone on the input: the exceptions of
\* its iterations and the mapping it returns.
AloneRaises(c) ==
    \E k \in DOMAIN input0 :
       RowStep(c.fields, c.suffix, FALSE, c.epsg_to, input0[k], input0[k]).exc # "none"

AloneOut(c) ==
    [k \in DOMAIN input0 |->
        RowStep(c.fields, c.suffix, FALSE, c.epsg_to, input0[k], input0[k]).outrow]

\* C20: concurrent calls with in_place=False are isolated.  The shared
\* input is never written, no call fails on a record the other one is
\* writing, and a call that returns where it would return alone returns
\* the mapping it would return alone.
C20_ConcurrentIsolation ==
    /\ data_dict = input0
    /\ \A i \in 1..Len(calls) :
          /\ calls[i].exc # "RuntimeError"
          /\ (calls[i].pc = "returned" /\ ~AloneRaises(calls[i])) =>
                calls[i].ret = RetDict(AloneOut(calls[i]))

\* What does hold: two calls that both declare 2 fields are isolated.
C20_HoldsForTwoFields ==
    (\A i \in 1..Len(calls) : Len(calls[i].fields) = 2) =>
       /\ data_dict = input0
       /\ \A i \in 1..Len(calls) :
             /\ calls[i].exc # "RuntimeError"
             /\ (calls[i].pc = "returned" /\ ~AloneRaises(calls[i])) =>
                   calls[i].ret = RetDict(AloneOut(calls[i]))

\* A call has returned a mapping that holds a field the other call wrote.
C20_ObservesOtherCall ==
    \E i, j \in 1..Len(calls) :
       /\ i # j /\ calls[i].pc = "returned" /\ calls[i].suffix # calls[j].suffix
       /\ \E k \in DOMAIN calls[i].ret.val :
             /\ calls[i].ret.val[k] # Null
             /\ ("h" \o calls[j].suffix) \in DOMAIN calls[i].ret.val[k]

\* The copy of a call has failed on a record the other call was writing.
C20_CopyRaises == \E i \in 1..Len(calls) : calls[i].exc = "RuntimeError"

\* ---------------------------------------------------------------------
\* Provenance of the fields of a merged record
\* ---------------------------------------------------------------------

\* The ids whose merged entry is a record.
MergedIds == { k \in DOMAIN merged_dict : merged_dict[k] # Null }

\* C21 as stated: every field of the log record is in the merged record
\* under its name plus _mrk, every field of the image record under its
\* name plus _exif, with the source's value.
C21_EveryFieldSuffixed ==
    \A k \in MergedIds :
       /\ \A f \in DOMAIN mrk_dict[k] :
             /\ (f \o "_mrk") \in DOMAIN merged_dict[k]
             /\ merged_dict[k][f \o "_mrk"] = mrk_dict[k][f]
       /\ \A f \in DOMAIN exif_dict[k] :
             /\ (f \o "_exif") \in DOMAIN merged_dict[k]
             /\ merged_dict[k][f \o "_exif"] = exif_dict[k][f]

\* C21: provenance suffixes.  Every field of the log record but id is in
\* the merged record under its name plus _mrk, every field of the image
\* record but id under its name plus _exif, each with its source's value;
\* id is kept once, without a suffix, from the log record, and the merged
\* record has no other field.
C21_ProvenanceSuffixes ==
    \A k \in MergedIds :
       /\ \A f \in DOMAIN mrk_dict[k] \ {"id"} :
             /\ (f \o "_mrk") \in DOMAIN merged_dict[k]
             /\ merged_dict[k][f \o "_mrk"] = mrk_dict[k][f]
       /\ \A f \in DOMAIN exif_dict[k] \ {"id"} :
             /\ (f \o "_exif") \in DOMAIN merged_dict[k]
             /\ merged_dict[k][f \o "_exif"] = exif_dict[k][f]
       /\ merged_dict[k]["id"] = mrk_dict[k]["id"]
       /\ DOMAIN merged_dict[k] =
             {"id"} \cup {f \o "_mrk" : f \in DOMAIN mrk_dict[k] \ {"id"}}
                    \cup {f \o "_exif" : f \in DOMAIN exif_dict[k] \ {"id"}}

\* A merge has returned a record whose log and image positions differ.
C21_Witness ==
    /\ merge_pc = "returned"
    /\ \E k \in MergedIds :
          /\ merged_dict[k]["lat_mrk"] # merged_dict[k]["lat_exif"]
          /\ merged_dict[k]["ellh_mrk"] # merged_dict[k]["ellh_exif"]

\* ---------------------------------------------------------------------
\* Determinism of project_to_utm
\* ---------------------------------------------------------------------

\* Two calls of project_to_utm (dji.py) with the same CRS codes, fields and
\* suffix have returned, the second one on the mapping of the first or on
\* the copy of the input.
TwoRunsReturned ==
    /\ Len(calls) = 2
    /\ calls[1].fn = "dji" /\ calls[2].fn = "dji"
    /\ calls[1].pc = "returned" /\ calls[2].pc = "returned"

\* Both results hold E and N for key k, with the same values.
SameEN(k) ==
    LET r1 == Result(calls[1])[k]
        r2 == Result(calls[2])[k]
        E == EField(calls[1])
        N == NField(calls[1])
    IN  (r1 # Null /\ r2 # Null) =>
           /\ {E, N} \subseteq DOMAIN r1 /\ {E, N} \subseteq DOMAIN r2
           /\ r1[E] = r2[E] /\ r1[N] = r2[N]

\* A step of a second, in-place run on the mapping that a first in-place
\* run has already projected.
SecondRunOnTop ==
    /\ Len(calls) = 2
    /\ calls[1].fn = "dji" /\ calls[2].fn = "dji"
    /\ calls[1].pc = "returned" /\ calls[1].in_place
    /\ calls[2].in_place /\ calls[2].target = calls[1].target

MaxCoef == 1

CoreIdle == MergeIdle /\ ProjIdle /\ MrkIdle /\ BilIdle

Coefs == (0 - MaxCoef)..MaxCoef

Offsets == 0..MaxCoef

Det(t) == t.a * t.e - t.b * t.d

\* The transforms that have an inverse (~tform raises on the others).
Transforms ==
    { t \in [a : Coefs, b : Coefs, c : Offsets, d : Coefs, e : Coefs, f : Offsets] :
         Det(t) # 0 }

\* ~tform: the coefficients of the inverse, all over the denominator Det.
Inverse(t) ==
    [a |-> t.e, b |-> 0 - t.b, c |-> t.b * t.f - t.e * t.c,
     d |-> 0 - t.d, e |-> t.a, f |-> t.d * t.c - t.a * t.f,
     den |-> Det(t)]

\* ~tform * p for p = (x, y): a pair of fractions.
ApplyInverse(t, x, y) ==
    LET i == Inverse(t)
    IN  << <<i.a * x + i.b * y + i.c, i.den>>, <<i.d * x + i.e * y + i.f, i.den>> >>

\* tform * p for a pair p of fractions.
ApplyForward(t, p) ==
    << <<t.a * p[1][1] * p[2][2] + t.b * p[2][1] * p[1][2] + t.c * p[1][2] * p[2][2],
         p[1][2] * p[2][2]>>,
       <<t.d * p[1][1] * p[2][2] + t.e * p[2][1] * p[1][2] + t.f * p[1][2] * p[2][2],
         p[1][2] * p[2][2]>> >>

Xy2rc_ColRow(t, x, y) == ApplyInverse(t, x, y)

\* xy2rc: rc = ~tform * (x, y); return rc[1], rc[0].
Xy2rc(t, x, y) == LET rc == ApplyInverse(t, x, y) IN <<rc[2], rc[1]>>

\* rc2xy: xy = tform * (col, row); return xy[0], xy[1].
Rc2xy(t, row, col) == LET xy == ApplyForward(t, <<col, row>>) IN <<xy[1], xy[2]>>

\* Two fractions are the same number; a fraction is the integer n.
SameNumber(p, q) == p[1] * q[2] = q[1] * p[2]

IsInteger(p, n) == p[1] = n * p[2]

\* xy2rc(tform, x, y)
Xy2rcCall ==
    /\ affine.pc = "idle"
    /\ affine' = [affine EXCEPT !.pc = "rc", !.rc = Xy2rc(affine.tform, affine.x, affine.y)]
    /\ UNCHANGED <<coreVars, name_call, exif_call, images_call, image_list, renamer, csv_call>>

\* rc2xy(tform, *rc) on the pair that xy2rc returned
Rc2xyCall ==
    /\ affine.pc = "rc"
    /\ affine' = [affine EXCEPT !.pc = "xy",
                                !.xy = Rc2xy(affine.tform, affine.rc[1], affine.rc[2])]
    /\ UNCHANGED <<coreVars, name_call, exif_call, images_call, image_list, renamer, csv_call>>

InitAffine ==
    /\ \E t \in Transforms, x \in Coefs, y \in Coefs :
          affine = [pc |-> "idle", tform |-> t, x |-> x, y |-> y,
                    rc |-> << <<0, 1>>, <<0, 1>> >>, xy |-> << <<0, 1>>, <<0, 1>> >>]
    /\ CoreIdle
    /\ NameIdle /\ ExifIdle /\ ImagesIdle /\ ImageListIdle /\ RenamerIdle /\ CsvIdle

NextAffine == Xy2rcCall \/ Rc2xyCall

SpecAffine == InitAffine /\ [][NextAffine]_vars

\* C23: xy2rc and rc2xy are mutually inverse, with a fixed axis order.
\* xy2rc returns (row, col) such that the forward transform of (col, row)
\* is (x, y); rc2xy returns (x, y), the forward transform of (col, row);
\* and rc2xy of the pair that xy2rc returned is the point (x, y) itself.
C23_MutuallyInverse ==
    /\ affine.pc \in {"rc", "xy"} =>
          LET t == affine.tform
              row == affine.rc[1]
              col == affine.rc[2]
          IN  /\ t.a * col[1] * row[2] + t.b * row[1] * col[2] + t.c * col[2] * row[2]
                    = affine.x * col[2] * row[2]
              /\ t.d * col[1] * row[2] + t.e * row[1] * col[2] + t.f * col[2] * row[2]
                    = affine.y * col[2] * row[2]
    /\ affine.pc = "xy" =>
          /\ IsInteger(affine.xy[1], affine.x)
          /\ IsInteger(affine.xy[2], affine.y)

\* The round trip has been made through a transform that maps the two
\* axes differently, on a point whose row and column differ.
C23_Witness ==
    /\ affine.pc = "xy"
    /\ affine.tform.b # affine.tform.d
    /\ ~SameNumber(affine.rc[1], affine.rc[2])

\* ---------------------------------------------------------------------
\* get_dji_id_from_name (dji.py).  A file name is a sequence of characters.
\* ---------------------------------------------------------------------

\* The positions of the character ch in the sequence cs.
Positions(cs, ch) == { i \in 1..Len(cs) : cs[i] = ch }

Last(S) == CHOOSE i \in S : \A j \in S : j <= i

\* Path(fname).name: what follows the last "/".
PathName(cs) ==
    IF Positions(cs, "/") = {} THEN cs
    ELSE SubSeq(cs, Last(Positions(cs, "/")) + 1, Len(cs))

\* Path(fname).stem: the name without its suffix; the suffix starts at the
\* last "." unless that is the first or the last character of the name.
PathStem(cs) ==
    LET name == PathName(cs)
        dots == Positions(name, ".")
    IN  IF dots # {} /\ 1 < Last(dots) /\ Last(dots) < Len(name)
        THEN SubSeq(name, 1, Last(dots) - 1)
        ELSE name

SecondPart(cs) ==
    LET us == Positions(cs, "_")
        first == CHOOSE i \in us : \A j \in us : i <= j
        rest == SubSeq(cs, first + 1, Len(cs))
        us2 == Positions(rest, "_")
    IN  IF us = {} THEN cs
        ELSE IF us2 = {} THEN rest
        ELSE SubSeq(rest, 1, (CHOOSE i \in us2 : \A j \in us2 : i <= j) - 1)

\* stem.split("_")[-1]: what follows the last "_", the whole stem if it
\* has none.
LastPart(cs) ==
    IF Positions(cs, "_") = {} THEN cs
    ELSE SubSeq(cs, Last(Positions(cs, "_")) + 1, Len(cs))

\* The file names of the model: a folder, a prefix, "_", the digits of the
\* image, an extension.
NameFolders == {<<>>, <<"a", "_", "1", "/">>}

NamePrefixes ==
    {<<"D", "J", "I">>, <<"d", "j", "i">>, <<"I", "M", "G">>,
     <<"D", "J", "I", "_", "2", "0", "2", "3">>}

NameDigits ==
    {<<"0", "0", "0", "1">>, <<"0", "1", "2", "3">>, <<"1", "0", "0", "5">>,
     <<"0", "0", "a", "1">>}

NameExtensions == {<<".", "J", "P", "G">>, <<".", "j", "p", "g">>, <<".", "D", "N", "G">>, <<>>}

NameParts ==
    [folder : NameFolders, prefix : NamePrefixes, digits : NameDigits,
     ext : NameExtensions]

FileName(parts) == parts.folder \o parts.prefix \o <<"_">> \o parts.digits \o parts.ext

\* get_dji_id_from_name(fname): int() raises ValueError on a string that
\* is not a number.
GetDjiIdFromName ==
    /\ name_call.pc = "idle"
    /\ LET last == LastPart(PathStem(name_call.fname))
       IN  name_call' =
              IF IsFloat(last)
              THEN [name_call EXCEPT !.pc = "returned", !.ret = IntParse(last)]
              ELSE [name_call EXCEPT !.pc = "raised", !.exc = "ValueError"]
    /\ UNCHANGED <<coreVars, affine, exif_call, images_call, image_list, renamer, csv_call>>

InitName ==
    /\ \E parts \in NameParts :
          name_call = [pc |-> "idle", parts |-> parts, fname |-> FileName(parts),
                       ret |-> 0, exc |-> "none"]
    /\ CoreIdle
    /\ AffineIdle /\ ExifIdle /\ ImagesIdle /\ ImageListIdle /\ RenamerIdle /\ CsvIdle

NextName == GetDjiIdFromName

SpecName == InitName /\ [][NextName]_vars

\* C24: the id of a file name.  For a name whose stem ends, after its last
\* underscore, in digits, the call returns their integer value, whatever
\* the folder, the prefix, its case and the extension; it returns a value
\* for no other name.
C24_IdFromName ==
    /\ name_call.pc # "idle" =>
          IF IsFloat(name_call.parts.digits)
          THEN name_call.pc = "returned" /\ name_call.ret = Float(name_call.parts.digits)
          ELSE name_call.pc = "raised"
    /\ (name_call.pc = "returned" /\ name_call.parts.digits = <<"0", "0", "0", "1">>) =>
          name_call.ret = 1
    /\ (name_call.pc = "returned" /\ name_call.parts.digits = <<"0", "1", "2", "3">>) =>
          name_call.ret = 123

\* The id of a lower-case name with a second underscore in its prefix, in
\* a folder with an underscore, has been returned.
C24_Witness ==
    /\ name_call.pc = "returned" /\ name_call.ret = 123
    /\ name_call.parts.prefix = <<"D", "J", "I", "_", "2", "0", "2", "3">>
    /\ name_call.parts.folder # <<>>
    /\ name_call.parts.ext = <<".", "j", "p", "g">>

\* ---------------------------------------------------------------------
\* latlonalt_from_exif (djiimg_preproc.py).  An angle is the tag's three
\* values <<degrees, minutes, seconds>>; the latitude and longitude
\* returned are kept in arc seconds (multiplied by 3600), so that the
\* arithmetic is exact.
\* ---------------------------------------------------------------------

ExifPrecondition_NoAltitudeCheck(exif) ==
    IF exif["GPS GPSLatitudeRef"] # "N"
    THEN "Latitude Reference is not North"
    ELSE IF exif["GPS GPSLongitudeRef"] # "E"
    THEN "Longitude Reference is not East"
    ELSE "none"

\* The three assertions, in their order: the message of the first one that
\* fails.
ExifPrecondition(exif) ==
    IF exif["GPS GPSLatitudeRef"] # "N"
    THEN "Latitude Reference is not North"
    ELSE IF exif["GPS GPSLongitudeRef"] # "E"
    THEN "Longitude Reference is not East"
    ELSE IF exif["GPS GPSAltitudeRef"] # 0
    THEN "Altitude Reference is not WGS84"
    ELSE "none"

\* values[0] + values[1] / 60 + values[2] / 3600, in arc seconds.
ArcSeconds(dms) == dms[1] * 3600 + dms[2] * 60 + dms[3]

Angles == {<<37, 49, 30>>, <<37, 0, 30>>, <<45, 28, 0>>, <<9, 11, 12>>}

\* The tags of an image: the three references and the three values.
ExifInputs ==
    { [t \in {"GPS GPSLatitudeRef", "GPS GPSLatitude", "GPS GPSLongitudeRef",
              "GPS GPSLongitude", "GPS GPSAltitudeRef", "GPS GPSAltitude"} |->
          CASE t = "GPS GPSLatitudeRef" -> latref
            [] t = "GPS GPSLatitude" -> lat
            [] t = "GPS GPSLongitudeRef" -> lonref
            [] t = "GPS GPSLongitude" -> lon
            [] t = "GPS GPSAltitudeRef" -> altref
            [] OTHER -> alt]
      : latref \in {"N", "S"}, lonref \in {"E", "W"}, altref \in {0, 1},
        lat \in Angles, lon \in Angles, alt \in {17, 110} }

\* latlonalt_from_exif(exif)
LatLonAltFromExif ==
    /\ exif_call.pc = "idle"
    /\ LET exif == exif_call.exif
           pre == ExifPrecondition(exif)
       IN  exif_call' =
              IF pre # "none"
              THEN [exif_call EXCEPT !.pc = "raised", !.exc = "AssertionError",
                                     !.msg = pre]
              ELSE [exif_call EXCEPT !.pc = "returned",
                                     !.ret = <<ArcSeconds(exif["GPS GPSLatitude"]),
                                               ArcSeconds(exif["GPS GPSLongitude"]),
                                               exif["GPS GPSAltitude"]>>]
    /\ UNCHANGED <<coreVars, affine, name_call, images_call, image_list, renamer, csv_call>>

InitExif ==
    /\ \E exif \in ExifInputs :
          exif_call = [pc |-> "idle", exif |-> exif, ret |-> <<>>, exc |-> "none",
                       msg |-> "none"]
    /\ CoreIdle
    /\ AffineIdle /\ NameIdle /\ ImagesIdle /\ ImageListIdle /\ RenamerIdle /\ CsvIdle

NextExif == LatLonAltFromExif

SpecExif == InitExif /\ [][NextExif]_vars

\* The references of the tags are those the function accepts.
RefsAccepted ==
    /\ exif_call.exif["GPS GPSLatitudeRef"] = "N"
    /\ exif_call.exif["GPS GPSLongitudeRef"] = "E"
    /\ exif_call.exif["GPS GPSAltitudeRef"] = 0

\* C25: the references are checked.  A call on tags whose latitude
\* reference is not N, longitude reference is not E or altitude reference
\* is not 0 ends with an AssertionError and returns nothing; any other call
\* returns degrees + minutes/60 + seconds/3600 for latitude and longitude
\* (here in arc seconds) and the altitude value.
C25_ReferencesChecked ==
    exif_call.pc # "idle" =>
       IF RefsAccepted
       THEN /\ exif_call.pc = "returned" /\ exif_call.exc = "none"
            /\ LET lat == exif_call.exif["GPS GPSLatitude"]
                   lon == exif_call.exif["GPS GPSLongitude"]
               IN  exif_call.ret = <<3600 * lat[1] + 60 * lat[2] + lat[3],
                                     3600 * lon[1] + 60 * lon[2] + lon[3],
                                     exif_call.exif["GPS GPSAltitude"]>>
       ELSE /\ exif_call.pc = "raised" /\ exif_call.ret = <<>>
            /\ exif_call.exc = "AssertionError"

\* A call on tags whose only fault is the altitude reference has ended.
C25_Witness ==
    /\ exif_call.pc = "raised"
    /\ exif_call.exif["GPS GPSLatitudeRef"] = "N"
    /\ exif_call.exif["GPS GPSLongitudeRef"] = "E"
    /\ exif_call.exif["GPS GPSAltitudeRef"] = 1

\* ---------------------------------------------------------------------
\* get_images (dji.py, djimrk.py): the loop over the files of the folder.
\* The k-th file of the sorted list is the image of id k; reading it fails
\* in Image(file), in get_dji_id_from_name, in latlonalt_from_exif, or not
\* at all.
\* ---------------------------------------------------------------------

MaxFiles == 3

Faults == {"none", "Image", "get_dji_id_from_name", "latlonalt_from_exif"}

ImageFiles == [fault : Faults, seed : Seeds]

FileLists == UNION { [1..n -> ImageFiles] : n \in 0..MaxFiles }

\* The local variable id before its first assignment.
Unbound == [bound |-> FALSE]

Bound(n) == [bound |-> TRUE, val |-> n]

\* One iteration of the loop: the try block assigns id after Image(file)
\* and before latlonalt_from_exif; the except block stores None under
\* whatever id holds, and raises UnboundLocalError if it holds nothing.
GetImagesFile ==
    /\ images_call.pc = "loop"
    /\ images_call.i < Len(images_call.files)
    /\ LET c == images_call
           k == c.i + 1
           file == c.files[k]
       IN  images_call' =
              IF file.fault = "none"
              THEN [c EXCEPT !.i = k, !.id = Bound(k),
                             !.exifdata = Put(c.exifdata, k, ExifRecord(k, file.seed))]
              ELSE IF file.fault = "latlonalt_from_exif"
              THEN [c EXCEPT !.i = k, !.id = Bound(k),
                             !.exifdata = Put(c.exifdata, k, Null)]
              ELSE IF c.id.bound
              THEN [c EXCEPT !.i = k, !.exifdata = Put(c.exifdata, c.id.val, Null)]
              ELSE [c EXCEPT !.pc = "raised", !.exc = "UnboundLocalError"]
    /\ UNCHANGED <<coreVars, affine, name_call, exif_call, image_list, renamer, csv_call>>

\* return exifdata
GetImagesReturn ==
    /\ images_call.pc = "loop"
    /\ images_call.i = Len(images_call.files)
    /\ images_call' = [images_call EXCEPT !.pc = "returned"]
    /\ UNCHANGED <<coreVars, affine, name_call, exif_call, image_list, renamer, csv_call>>

InitImages ==
    /\ \E files \in FileLists :
          images_call = [pc |-> "loop", files |-> files, i |-> 0, id |-> Unbound,
                         exifdata |-> EmptyDict, exc |-> "none"]
    /\ CoreIdle
    /\ AffineIdle /\ NameIdle /\ ExifIdle /\ ImageListIdle /\ RenamerIdle /\ CsvIdle

NextImages == GetImagesFile \/ GetImagesReturn

SpecImages == InitImages /\ [][NextImages]_vars

\* The files visited so far.
Visited == 1..images_call.i

\* The entries of the images read without a failure are their records, the
\* entries of the images that failed after their id was parsed are None,
\* and there is no other entry.
ImagesIsolated ==
    /\ images_call.pc # "raised"
    /\ \A k \in Visited :
          LET file == images_call.files[k] IN
          /\ file.fault = "none" =>
                /\ k \in DOMAIN images_call.exifdata
                /\ images_call.exifdata[k] = ExifRecord(k, file.seed)
          /\ file.fault \in {"Image", "latlonalt_from_exif"} =>
                /\ k \in DOMAIN images_call.exifdata
                /\ images_call.exifdata[k] = Null
    /\ DOMAIN images_call.exifdata \subseteq Visited

\* C26: failure isolation.  A failure on one image sets only that image's
\* own entry to None: the call goes on, the entry of every image read
\* without a failure stays its record, and no key but the id of a visited
\* image is inserted, wherever the failing file is in the list.
C26_FailureIsolation == ImagesIsolated

\* What does hold: when every failure is one of latlonalt_from_exif (after
\* id was assigned), the failures are isolated.
C26_HoldsForGpsFailures ==
    (\A k \in 1..Len(images_call.files) :
        images_call.files[k].fault \in {"none", "latlonalt_from_exif"})
    => ImagesIsolated

\* The entry of an image that was read without a failure has been replaced
\* by None.
C26_OtherEntryReplaced ==
    \E k \in Visited :
       /\ images_call.files[k].fault = "none"
       /\ images_call.exifdata[k] = Null

\* The call has ended with the UnboundLocalError of the except block.
C26_FirstFileFails == images_call.exc = "UnboundLocalError"

\* ---------------------------------------------------------------------
\* ImageList (images.py): __iter__ returns the list itself and __next__
\* moves the one cursor _current_idx of the list.  The files of the sorted
\* list are 1..n.  A loop "for file in image_list" is a frame: the files it
\* was handed so far and whether it runs, ended on StopIteration, or was
\* left by break or by an exception (RawConverter.convert,
\* ImageRenamer.rename).  Loops are run one after the other or nested; the
\* loop that steps is the last one that still runs.
\* ---------------------------------------------------------------------

MaxLoops == 3

\* The frames that still run, and the one that steps.
Running == { l \in 1..Len(image_list.loops) : image_list.loops[l].pc = "running" }

Active == Last(Running)

\* for file in image_list: a new loop, after the earlier ones or in the
\* body of the one that runs (which has been handed a file).
LoopStart ==
    /\ image_list.pc = "built"
    /\ Len(image_list.loops) < MaxLoops
    /\ Running # {} => image_list.loops[Active].visited # <<>>
    /\ image_list' = [image_list EXCEPT !.loops =
          Append(@, [pc |-> "running", visited |-> <<>>, nested |-> Running # {}])]
    /\ UNCHANGED <<coreVars, affine, name_call, exif_call, images_call, renamer, csv_call>>

\* __next__: past the end the cursor is set back to 0 and StopIteration
\* ends the loop; otherwise the file under the cursor is handed out and the
\* cursor moves on.
LoopNext ==
    /\ image_list.pc = "built"
    /\ Running # {}
    /\ Len(image_list.loops[Active].visited) <= image_list.n
    /\ image_list' =
          IF image_list.current_idx >= image_list.n
          THEN [image_list EXCEPT !.current_idx = 0, !.loops[Active].pc = "exhausted"]
          ELSE [image_list EXCEPT !.current_idx = @ + 1,
                                  !.loops[Active].visited =
                                      Append(@, image_list.current_idx + 1)]
    /\ UNCHANGED <<coreVars, affine, name_call, exif_call, images_call, renamer, csv_call>>

\* break, or an exception raised in the body: the loop is left after a
\* file was handed out.
LoopLeave ==
    /\ image_list.pc = "built"
    /\ Running # {}
    /\ image_list.loops[Active].visited # <<>>
    /\ image_list' = [image_list EXCEPT !.loops[Active].pc = "left"]
    /\ UNCHANGED <<coreVars, affine, name_call, exif_call, images_call, renamer, csv_call>>

\* ImageList(...): the files are read and the cursor is 0.
InitImageList ==
    /\ \E n \in 0..MaxFiles :
          image_list = [pc |-> "built", n |-> n, current_idx |-> 0, loops |-> <<>>]
    /\ CoreIdle
    /\ AffineIdle /\ NameIdle /\ ExifIdle /\ ImagesIdle /\ RenamerIdle /\ CsvIdle

NextImageList == LoopStart \/ LoopNext \/ LoopLeave

SpecImageList == InitImageList /\ [][NextImageList]_vars

\* The files 1..k in sorted order.
FirstFiles(k) == [i \in 1..k |-> i]

\* The loop was handed the files in sorted order from the first one, each
\* once, and all of them if it ended on StopIteration.
VisitsInOrder(loop) ==
    /\ loop.visited = FirstFiles(Len(loop.visited))
    /\ loop.pc = "exhausted" => Len(loop.visited) = image_list.n

\* C27: every loop visits each file once, in sorted order, from the first
\* file, also after a loop that was left early and when loops are nested.
C27_EveryLoopFromFirstFile ==
    \A l \in 1..Len(image_list.loops) : VisitsInOrder(image_list.loops[l])

\* What does hold: loops that are run one after the other, each to its
\* StopIteration, visit every file once in order.
C27_HoldsAfterExhaustion ==
    (\A l \in 1..Len(image_list.loops) :
        /\ image_list.loops[l].pc # "left"
        /\ ~image_list.loops[l].nested)
    => \A l \in 1..Len(image_list.loops) : VisitsInOrder(image_list.loops[l])

\* A loop that followed a loop left early has ended without the first
\* file.
C27_LaterLoopSkipsFiles ==
    /\ Len(image_list.loops) = 2
    /\ image_list.loops[1].pc = "left" /\ ~image_list.loops[2].nested
    /\ image_list.loops[2].pc = "exhausted"
    /\ 1 \notin { image_list.loops[2].visited[i] : i \in 1..Len(image_list.loops[2].visited) }

\* An outer loop has been handed its first file again after a nested loop.
C27_OuterLoopRepeats ==
    /\ Len(image_list.loops) = 2 /\ image_list.loops[2].nested
    /\ Len(image_list.loops[1].visited) >= 2
    /\ image_list.loops[1].visited[1] = image_list.loops[1].visited[2]

\* ---------------------------------------------------------------------
\* ImageRenamer.rename (renaming.py), run in a single process on images
\* that all carry a date-time.  The k-th source file holds the content k;
\* a folder is a mapping from file names to contents.
\* ---------------------------------------------------------------------

CameraModels == {"FC6310", "M3E"}

\* What the new name is built from: the capture second and the camera
\* model of the image (its suffix is the same for all files of the list).
SourceImages == [second : Seeds, camera : CameraModels]

SourceLists == UNION { [1..n -> SourceImages] : n \in 1..MaxFiles }

NoId == [given |-> FALSE]

\* name_from_exif: new_name = base_name + id_str + "_" + date_time_str +
\* "_" + camera_model + suffix, with id_str empty when no progressive id is
\* given.  Two names are the same string when their parts are the same.
NameFromExif(img, progressive_id) ==
    [id_str |-> progressive_id, date_time_str |-> img.second, camera_model |-> img.camera]

\* enumerate(...): the loop index is handed over as progressive id only
\* with progressive_ids.
ProgressiveId(i) == IF renamer.progressive_ids THEN [given |-> TRUE, val |-> i] ELSE NoId

\* copy_and_rename on the next file of the loop of rename: the copy is
\* written under the new name (shutil.copyfile replaces a file of that
\* name), then the original is unlinked if requested.
CopyAndRename ==
    /\ renamer.pc = "loop"
    /\ renamer.i < Len(renamer.files)
    /\ LET k == renamer.i + 1
           new_name == NameFromExif(renamer.files[k], ProgressiveId(renamer.i))
       IN  renamer' = [renamer EXCEPT
              !.i = k,
              !.dest = Put(@, new_name, k),
              !.source = IF renamer.delete_original THEN @ \ {k} ELSE @,
              !.new_names = Append(@, new_name)]
    /\ UNCHANGED <<coreVars, affine, name_call, exif_call, images_call, image_list, csv_call>>

\* The loop is over: rename returns the renaming table.
RenameReturn ==
    /\ renamer.pc = "loop"
    /\ renamer.i = Len(renamer.files)
    /\ renamer' = [renamer EXCEPT !.pc = "returned"]
    /\ UNCHANGED <<coreVars, affine, name_call, exif_call, images_call, image_list, csv_call>>

InitRenamer ==
    /\ \E files \in SourceLists, progressive_ids \in BOOLEAN, delete_original \in BOOLEAN :
          renamer = [pc |-> "loop", files |-> files,
                     progressive_ids |-> progressive_ids,
                     delete_original |-> delete_original,
                     i |-> 0, source |-> 1..Len(files), dest |-> EmptyDict,
                     new_names |-> <<>>, exc |-> "none"]
    /\ CoreIdle
    /\ AffineIdle /\ NameIdle /\ ExifIdle /\ ImagesIdle /\ ImageListIdle /\ CsvIdle

NextRenamer == CopyAndRename \/ RenameReturn

SpecRenamer == InitRenamer /\ [][NextRenamer]_vars

\* The contents held by the files of the destination folder.
DestContents == { renamer.dest[name] : name \in DOMAIN renamer.dest }

\* Every file renamed so far has its content in the destination folder
\* under its own new name, the new names differ, and every content is
\* still in the source folder or in the destination folder.
NoImageLost ==
    /\ \A k \in 1..renamer.i :
          /\ renamer.new_names[k] \in DOMAIN renamer.dest
          /\ renamer.dest[renamer.new_names[k]] = k
    /\ \A j, k \in 1..renamer.i : j # k => renamer.new_names[j] # renamer.new_names[k]
    /\ \A k \in 1..Len(renamer.files) : k \in renamer.source \/ k \in DestContents

\* C28: no image is lost by renaming, with or without progressive ids and
\* with or without delete_original.
C28_NoImageLost == NoImageLost

\* What does hold: with progressive_ids no image is lost.
C28_HoldsWithProgressiveIds == renamer.progressive_ids => NoImageLost

\* rename has returned and the content of an image is neither in the
\* source folder nor in the destination folder.
C28_ContentGone ==
    /\ renamer.pc = "returned"
    /\ \E k \in 1..Len(renamer.files) : k \notin renamer.source /\ k \notin DestContents

\* ---------------------------------------------------------------------
\* The value project_to_utm returns when it fails
\* ---------------------------------------------------------------------

\* Lines 262-266: the value returned when the CRS cannot be built or is of
\* the wrong kind.
FailureSentinel == RetNone

\* C29: the failure sentinel is distinguishable from success.  No call
\* that has projected its records returns the value of a failed call, in
\* either in_place mode.
C29_SentinelDistinct ==
    \A i \in DjiCalls : calls[i].pc = "returned" => calls[i].ret # FailureSentinel

\* What does hold: with in_place=False the value of a call that has
\* projected its records is a mapping, never the sentinel.
C29_HoldsForCopyMode ==
    \A i \in DjiCalls :
       (calls[i].pc = "returned" /\ ~calls[i].in_place) =>
          /\ calls[i].ret.kind = "dict"
          /\ calls[i].ret # FailureSentinel

\* An in-place call has projected a record and returned the sentinel.
C29_SuccessReturnsSentinel ==
    /\ Len(calls) = 1 /\ calls[1].fn = "dji"
    /\ calls[1].pc = "returned" /\ calls[1].in_place
    /\ calls[1].ret = FailureSentinel
    /\ \E k \in DOMAIN data_dict :
          data_dict[k] # Null /\ EField(calls[1]) \in DOMAIN data_dict[k]

(***************************************************************************)
(* dji2csv (dji.py 317-448)                                                *)
(***************************************************************************)
\* The quality codes a log record carries: the three of flag_qual and one
\* that equals none of them.
QualCodes == {50, 16, 1, 2}

\* Lines 323-324: flag_qual, and scale factors that tell the three apart.
FlagQual == <<50, 16, 1>>
ScaleFactors == <<1, 2, 3>>

\* The zones a caller passes: "32N" and "99N", a zone no UTM CRS exists for.
UtmZones == { [zone |-> 32, emisph |-> "N"], [zone |-> 99, emisph |-> "N"] }

\* Lines 308-314.
GetEpsgFromUtmZone(utm_zone) ==
    (IF utm_zone.emisph = "N" THEN 32600 ELSE 32700) + utm_zone.zone

\* One merged record (merge_mrk_exif_data) with the given quality code.
CsvRecord(id, q) ==
    [MergedData(MrkRecord(id, 0), ExifRecord(id, 0)) EXCEPT !["Qual_mrk"] = q]

\* The data_dict arguments: per id no entry, a null entry or the merged
\* record of that id.
CsvDicts ==
    { d \in UNION { [S -> {Null} \cup { CsvRecord(i, q) : i \in IDs, q \in QualCodes }] :
                    S \in SUBSET IDs } :
        \A k \in DOMAIN d : d[k] # Null => d[k]["id"] = k }

\* Lines 347-358: the coordinates the CSV reports.
ChooseCoord(v, flag_useImageCoord) ==
    IF v = Null THEN v
    ELSE IF ~flag_useImageCoord
    THEN Put(Put(Put(v, "lat", v["lat_mrk"]), "lon", v["lon_mrk"]), "ellh", v["ellh_mrk"])
    ELSE Put(Put(Put(v, "lat", v["lat_exif"]), "lon", v["lon_exif"]), "ellh", v["ellh_exif"])

\* Lines 361-370: project_to_utm in place on data4csv; its return value is
\* not looked at, and a failed call leaves the records without E, N, h.
CsvProject(d, flag_utm, utm_zone) ==
    IF ~flag_utm \/ TransformerFails(4326, GetEpsgFromUtmZone(utm_zone))
    THEN d
    ELSE [k \in DOMAIN d |->
            RowStep(<<"lat", "lon", "ellh">>, "", TRUE,
                    GetEpsgFromUtmZone(utm_zone), d[k], EmptyDict).row]

\* Lines 373-389: the scaled standard deviations; a record whose quality
\* code is none of flag_qual gets a warning and no stdE, stdN, stdV.
ScaleStd(v) ==
    IF v = Null THEN v
    ELSE IF \E j \in 1..3 : v["Qual_mrk"] = FlagQual[j]
    THEN LET j == CHOOSE n \in 1..3 : v["Qual_mrk"] = FlagQual[n] /\
                        \A m \in 1..(n - 1) : v["Qual_mrk"] # FlagQual[m]
         IN  Put(Put(Put(v, "stdE", ScaleFactors[j] * v["stdE_mrk"]),
                     "stdN", ScaleFactors[j] * v["stdN_mrk"]),
                 "stdV", ScaleFactors[j] * v["stdV_mrk"])
    ELSE v

\* Lines 417-443: the fields of one CSV line, in the order of the header.
CsvFields(flag_utm) ==
    <<"id", "path_exif", "path_exif", "date_exif", "time_exif", "lon", "lat", "ellh">>
    \o (IF flag_utm THEN <<"E", "N", "h">> ELSE <<>>)
    \o <<"stdE", "stdN", "stdV">>

\* The first field of the line the record does not have, 0 when it has all.
MissingField(v, flag_utm) ==
    LET f == CsvFields(flag_utm)
    IN  IF \A n \in 1..Len(f) : f[n] \in DOMAIN v THEN 0
        ELSE CHOOSE n \in 1..Len(f) :
                /\ f[n] \notin DOMAIN v
                /\ \A m \in 1..(n - 1) : f[m] \in DOMAIN v

\* Lines 417-445: the line written for a record.
CsvLine(v, flag_utm) ==
    [n \in 1..Len(CsvFields(flag_utm)) |-> v[CsvFields(flag_utm)[n]]]

\* The keys of a mapping in iteration order (ascending ids).
RECURSIVE KeyOrder(_)
KeyOrder(S) ==
    IF S = {} THEN <<>>
    ELSE LET k == CHOOSE x \in S : \A y \in S : x <= y
         IN  <<k>> \o KeyOrder(S \ {k})

\* Lines 343-389: the deep copy, the choice of coordinates, the projection
\* and the scaling, all on the copy data4csv.
CsvPrepare ==
    /\ csv_call.pc = "called"
    /\ csv_call' =
         [csv_call EXCEPT
            !.pc = "writing",
            !.data4csv =
               LET chosen == [k \in DOMAIN csv_call.data_dict |->
                                ChooseCoord(csv_call.data_dict[k],
                                            csv_call.flag_useImageCoord)]
                   projected == CsvProject(chosen, csv_call.flag_utm, csv_call.utm_zone)
               IN  [k \in DOMAIN projected |-> ScaleStd(projected[k])],
            !.opened = TRUE]
    /\ UNCHANGED <<coreVars, affine, name_call, exif_call, images_call,
                   image_list, renamer>>

\* Lines 414-445: one turn of the writing loop.  A null record is passed
\* over; a record without one of the fields of the line raises KeyError out
\* of the call, with the file holding the lines written so far.
CsvWriteRow ==
    /\ csv_call.pc = "writing"
    /\ csv_call.i < Len(KeyOrder(DOMAIN csv_call.data4csv))
    /\ LET k == KeyOrder(DOMAIN csv_call.data4csv)[csv_call.i + 1]
           v == csv_call.data4csv[k]
       IN  csv_call' =
             IF v = Null
             THEN [csv_call EXCEPT !.i = csv_call.i + 1]
             ELSE IF MissingField(v, csv_call.flag_utm) # 0
             THEN [csv_call EXCEPT
                     !.pc = "raised", !.exc = "KeyError",
                     !.key = CsvFields(csv_call.flag_utm)[MissingField(v, csv_call.flag_utm)]]
             ELSE [csv_call EXCEPT
                     !.i = csv_call.i + 1,
                     !.rows = Append(csv_call.rows, CsvLine(v, csv_call.flag_utm))]
    /\ UNCHANGED <<coreVars, affine, name_call, exif_call, images_call,
                   image_list, renamer>>

\* Lines 446-448.
CsvReturn ==
    /\ csv_call.pc = "writing"
    /\ csv_call.i = Len(KeyOrder(DOMAIN csv_call.data4csv))
    /\ csv_call' = [csv_call EXCEPT !.pc = "returned", !.ret = "True"]
    /\ UNCHANGED <<coreVars, affine, name_call, exif_call, images_call,
                   image_list, renamer>>

InitCsv ==
    /\ \E d \in CsvDicts, utm \in BOOLEAN, z \in UtmZones, img \in BOOLEAN :
          csv_call = [pc |-> "called", data_dict |-> d, input0 |-> d,
                      flag_utm |-> utm, utm_zone |-> z,
                      flag_useImageCoord |-> img, data4csv |-> EmptyDict,
                      opened |-> FALSE, i |-> 0, rows |-> <<>>,
                      ret |-> "unset", exc |-> "none", key |-> "none"]
    /\ CoreIdle /\ AffineIdle /\ NameIdle /\ ExifIdle /\ ImagesIdle
    /\ ImageListIdle /\ RenamerIdle

NextCsv == CsvPrepare \/ CsvWriteRow \/ CsvReturn

SpecCsv == InitCsv /\ [][NextCsv]_vars

\* The call has ended, by a return or by an exception.
CsvEnded == csv_call.pc \in {"returned", "raised"}

\* The ids of the records the claim has written: not null, and with a
\* quality code of flag_qual.
Writable(d) ==
    { k \in DOMAIN d : d[k] # Null /\ \E j \in 1..3 : d[k]["Qual_mrk"] = FlagQual[j] }

\* The ids of the lines of the file.
WrittenIds == { csv_call.rows[n][1] : n \in 1..Len(csv_call.rows) }

\* The call has returned True with exactly the writable records written.
SkippedAndReturned ==
    /\ csv_call.pc = "returned"
    /\ csv_call.ret = "True"
    /\ WrittenIds = Writable(csv_call.input0)
    /\ Len(csv_call.rows) = Cardinality(Writable(csv_call.input0))

\* C30: dji2csv skips per-record data problems.  A null record and a
\* record whose quality code is none of flag_qual are left out of the CSV,
\* every other record is written and the call returns True; the caller's
\* data_dict is as it was.
C30_SkipsBadRecords ==
    CsvEnded => (SkippedAndReturned /\ csv_call.data_dict = csv_call.input0)

\* What does hold: the caller's data_dict is never modified.
C30_InputNotModified ==
    csv_call.pc # "idle" => csv_call.data_dict = csv_call.input0

\* What does hold: with null records only as data problems, and no failed
\* projection, the null records are left out, the others written and True
\* returned.
C30_HoldsForNullRecords ==
    (/\ CsvEnded
     /\ \A k \in DOMAIN csv_call.input0 : csv_call.input0[k] = Null \/
                                          k \in Writable(csv_call.input0)
     /\ ~csv_call.flag_utm \/
          ~TransformerFails(4326, GetEpsgFromUtmZone(csv_call.utm_zone)))
    => SkippedAndReturned

\* A record with an invalid quality code has raised KeyError on stdE, and
\* the valid record after it is not in the file.
C30_BadQualityRaises ==
    /\ csv_call.pc = "raised" /\ csv_call.exc = "KeyError" /\ csv_call.key = "stdE"
    /\ ~csv_call.flag_utm
    /\ DOMAIN csv_call.input0 = {1, 2}
    /\ csv_call.input0[1] # Null /\ csv_call.input0[1]["Qual_mrk"] = 2
    /\ 2 \in Writable(csv_call.input0)
    /\ csv_call.rows = <<>>

====
